---- MODULE Spec2Model ----
(***************************************************************************)
(* Receipt text extraction of the NECF treasury backend:                   *)
(* OCRService._parse_receipt_comprehensive and the extractors it calls     *)
(* (backend/app/services/ocr_service.py).                                  *)
(*                                                                         *)
(* A text is a sequence of characters, each character a one-element        *)
(* string.  Characters outside ASCII are written by name: "Idot" is the    *)
(* dotted capital I, "idotless" the dotless small i, "Uuml"/"uuml" the U   *)
(* with diaeresis, "Scedil"/"scedil" the S with cedilla, "Lira" the lira   *)
(* sign.  Amounts are floats in the code; here they are exact integers in  *)
(* units of 1/Scale (thousandths), so sums carry no rounding error.        *)
(***************************************************************************)
EXTENDS Integers, Sequences, FiniteSets, TLC

\* -------------------------------------------------------------------------
\* Characters and the str methods the extractors use
\* -------------------------------------------------------------------------

Digits == {"0", "1", "2", "3", "4", "5", "6", "7", "8", "9"}

UpperLetters ==
    {"A", "B", "C", "D", "E", "F", "G", "H", "I", "J", "K", "L", "M", "N", "O", "P", "Q",
     "R", "S", "T", "U", "V", "W", "X", "Y", "Z", "Idot", "Uuml", "Scedil", "Ouml",
     "Gbreve", "Ccedil"}

LowerLetters ==
    {"a", "b", "c", "d", "e", "f", "g", "h", "i", "j", "k", "l", "m", "n", "o", "p", "q",
     "r", "s", "t", "u", "v", "w", "x", "y", "z", "idotless", "uuml", "scedil", "ouml",
     "gbreve", "ccedil"}

\* \s of the regular expressions, and what str.strip() removes
Whitespace == {" ", "\n", "\t"}

\* str.isdigit() / \d on one character
IsDigit(c) == c \in Digits

\* str.isalpha() on one character
IsAlpha(c) == c \in UpperLetters \cup LowerLetters

DigitVal(c) ==
    CASE c = "0" -> 0 [] c = "1" -> 1 [] c = "2" -> 2 [] c = "3" -> 3 [] c = "4" -> 4
      [] c = "5" -> 5 [] c = "6" -> 6 [] c = "7" -> 7 [] c = "8" -> 8 [] c = "9" -> 9

\* str.upper() on one character: the small i and the dotless i both become I
UpperChar(c) ==
    CASE c = "a" -> "A" [] c = "b" -> "B" [] c = "c" -> "C" [] c = "d" -> "D"
      [] c = "e" -> "E" [] c = "f" -> "F" [] c = "g" -> "G" [] c = "h" -> "H"
      [] c = "i" -> "I" [] c = "j" -> "J" [] c = "k" -> "K" [] c = "l" -> "L"
      [] c = "m" -> "M" [] c = "n" -> "N" [] c = "o" -> "O" [] c = "p" -> "P"
      [] c = "q" -> "Q" [] c = "r" -> "R" [] c = "s" -> "S" [] c = "t" -> "T"
      [] c = "u" -> "U" [] c = "v" -> "V" [] c = "w" -> "W" [] c = "x" -> "X"
      [] c = "y" -> "Y" [] c = "z" -> "Z" [] c = "idotless" -> "I"
      [] c = "uuml" -> "Uuml" [] c = "scedil" -> "Scedil" [] c = "ouml" -> "Ouml"
      [] c = "gbreve" -> "Gbreve" [] c = "ccedil" -> "Ccedil"
      [] OTHER -> c

\* str.upper()
Upper(s) == [i \in 1..Len(s) |-> UpperChar(s[i])]

\* s[i:i+len(lit)] == lit, with i counted from 1
MatchesAt(s, i, lit) ==
    /\ i >= 1
    /\ i + Len(lit) - 1 <= Len(s)
    /\ SubSeq(s, i, i + Len(lit) - 1) = lit

\* lit in s
Contains(s, lit) == \E i \in 1..(Len(s) - Len(lit) + 1) : MatchesAt(s, i, lit)

\* s.startswith(lit)
StartsWith(s, lit) == MatchesAt(s, 1, lit)

\* s[:n]
Prefix(s, n) == SubSeq(s, 1, IF n < Len(s) THEN n ELSE Len(s))

RECURSIVE LStrip(_)
LStrip(s) == IF s # <<>> /\ Head(s) \in Whitespace THEN LStrip(Tail(s)) ELSE s

RECURSIVE RStrip(_)
RStrip(s) ==
    IF s # <<>> /\ s[Len(s)] \in Whitespace THEN RStrip(SubSeq(s, 1, Len(s) - 1)) ELSE s

\* str.strip()
Strip(s) == RStrip(LStrip(s))

\* s.replace(sub, ''): the occurrences of sub, left to right, not overlapping
RECURSIVE RemoveAll(_, _)
RemoveAll(s, sub) ==
    IF s = <<>> THEN <<>>
    ELSE IF MatchesAt(s, 1, sub) THEN RemoveAll(SubSeq(s, Len(sub) + 1, Len(s)), sub)
    ELSE <<Head(s)>> \o RemoveAll(Tail(s), sub)

\* s.replace(a, b) for single characters a, b
ReplaceChar(s, a, b) == [i \in 1..Len(s) |-> IF s[i] = a THEN b ELSE s[i]]

\* s.rfind(c) for one character, counted from 1; 0 when c is not in s
RFind(s, c) ==
    IF \E i \in 1..Len(s) : s[i] = c
    THEN CHOOSE i \in 1..Len(s) : s[i] = c /\ \A j \in (i + 1)..Len(s) : s[j] # c
    ELSE 0

\* s.split('\n')
RECURSIVE SplitLines(_)
SplitLines(s) ==
    IF \E i \in 1..Len(s) : s[i] = "\n"
    THEN LET i == CHOOSE k \in 1..Len(s) : s[k] = "\n" /\ \A j \in 1..(k - 1) : s[j] # "\n"
         IN  <<SubSeq(s, 1, i - 1)>> \o SplitLines(SubSeq(s, i + 1, Len(s)))
    ELSE <<s>>

\* '\n'.join(ls)
RECURSIVE JoinLines(_)
JoinLines(ls) ==
    IF ls = <<>> THEN <<>>
    ELSE IF Len(ls) = 1 THEN ls[1]
    ELSE ls[1] \o <<"\n">> \o JoinLines(Tail(ls))

\* the index just past the whitespace that starts at i: the greedy \s*
RECURSIVE SkipWs(_, _)
SkipWs(s, i) == IF i <= Len(s) /\ s[i] \in Whitespace THEN SkipWs(s, i + 1) ELSE i

\* the index just past the digits that start at i: the greedy \d*
SkipDigits(s, i) ==
    IF i > Len(s) THEN i
    ELSE CHOOSE e \in i..(Len(s) + 1) :
             /\ e = Len(s) + 1 \/ ~IsDigit(s[e])
             /\ \A j \in i..(e - 1) : IsDigit(s[j])

\* the index just past an optional character of set cs at i: [cs]?
SkipOpt(s, i, cs) == IF i <= Len(s) /\ s[i] \in cs THEN i + 1 ELSE i

\* int() of a digit string
RECURSIVE DigitsToNat(_)
DigitsToNat(s) ==
    IF s = <<>> THEN 0 ELSE 10 * DigitsToNat(SubSeq(s, 1, Len(s) - 1)) + DigitVal(s[Len(s)])

Max(S) == CHOOSE x \in S : \A y \in S : y <= x

Min(S) == CHOOSE x \in S : \A y \in S : x <= y

\* -------------------------------------------------------------------------
\* _to_decimal
\* -------------------------------------------------------------------------

\* one unit of an amount is 1/Scale: 12,50 is 12500
Scale == 1000

\* the digits after the decimal point, as thousandths (further digits are below the unit)
FractionValue(f) == DigitsToNat(SubSeq(f \o <<"0","0","0">>, 1, 3))

\* float(s) for the strings the patterns capture: digits with at most one dot.
\* -1 stands for ValueError.
ParseFloat(s) ==
    LET Parts(ip, fp) ==
            IF /\ \A i \in 1..Len(ip) : IsDigit(ip[i])
               /\ \A i \in 1..Len(fp) : IsDigit(fp[i])
               /\ Len(ip) + Len(fp) > 0
            THEN DigitsToNat(ip) * Scale + FractionValue(fp)
            ELSE -1
        At(dot) ==
            IF dot = 0 THEN Parts(s, <<>>)
            ELSE Parts(SubSeq(s, 1, dot - 1), SubSeq(s, dot + 1, Len(s)))
    IN  At(RFind(s, "."))

\* re.search(r"(\d+(?:[.,]\d{1,2})?)", s): the first number in s, <<>> when none
FirstNumber(s) ==
    LET Decimals(e) ==
            IF e <= Len(s) /\ s[e] \in {".", ","}
            THEN (IF e + 2 <= Len(s) /\ IsDigit(s[e + 1]) /\ IsDigit(s[e + 2]) THEN 2
                  ELSE IF e + 1 <= Len(s) /\ IsDigit(s[e + 1]) THEN 1 ELSE 0)
            ELSE 0
        Cut(i, e, n) == IF n = 0 THEN SubSeq(s, i, e - 1) ELSE SubSeq(s, i, e + n)
        Run(i, e) == Cut(i, e, Decimals(e))
        From(i) == Run(i, SkipDigits(s, i))
    IN  IF \E i \in 1..Len(s) : IsDigit(s[i])
        THEN From(CHOOSE k \in 1..Len(s) : IsDigit(s[k]) /\ \A j \in 1..(k - 1) : ~IsDigit(s[j]))
        ELSE <<>>

\* s without 'TL', the lira sign, 'TRY' and blanks, stripped
StripCurrency(num_str) ==
    Strip(RemoveAll(RemoveAll(RemoveAll(RemoveAll(num_str, <<"T","L">>), <<"Lira">>), <<"T","R","Y">>), <<" ">>))

\* The decimal point read the English way, the comma a thousands separator: the fault
\* that C3 excludes
DecimalPointEnglish(s) == RemoveAll(s, <<",">>)

\* Turkish format: with both a dot and a comma the rightmost is the decimal point and the
\* other is dropped; a lone comma is the decimal point
DecimalPoint(s) ==
    LET Both(comma, dot) ==
            IF comma > 0 /\ dot > 0
            THEN (IF comma > dot THEN ReplaceChar(RemoveAll(s, <<".">>), ",", ".")
                  ELSE RemoveAll(s, <<",">>))
            ELSE IF comma > 0 THEN ReplaceChar(s, ",", ".")
            ELSE s
    IN  Both(RFind(s, ","), RFind(s, "."))

\* float(s), and on ValueError the first number found in s
FloatOrFirstNumber(s) ==
    LET Fallback(m) == IF m = <<>> THEN 0 ELSE ParseFloat(ReplaceChar(m, ",", "."))
        Try(v) == IF v >= 0 THEN v ELSE Fallback(FirstNumber(s))
    IN  Try(ParseFloat(s))

\* _to_decimal(num_str): Turkish number format to a number
ToDecimal(num_str) ==
    IF num_str = <<>> THEN 0 ELSE FloatOrFirstNumber(DecimalPoint(StripCurrency(num_str)))

\* -------------------------------------------------------------------------
\* _extract_total_amount: the regular expressions
\* -------------------------------------------------------------------------

NoMatch == [cap |-> <<>>, end |-> 0]

\* The index just past an amount at i, 0 when there is none:
\*   \d{minDigits,}[.,]\d{2}          (spaced = FALSE)
\*   \d{minDigits,}\s*[.,]\s*\d{2}    (spaced = TRUE)
AmountEnd(s, i, minDigits, spaced) ==
    LET Decimals(b) == IF b + 1 <= Len(s) /\ IsDigit(s[b]) /\ IsDigit(s[b + 1]) THEN b + 2 ELSE 0
        Point(a) ==
            IF a <= Len(s) /\ s[a] \in {".", ","}
            THEN Decimals(IF spaced THEN SkipWs(s, a + 1) ELSE a + 1)
            ELSE 0
        Whole(d) == IF d - i >= minDigits THEN Point(IF spaced THEN SkipWs(s, d) ELSE d) ELSE 0
    IN  Whole(SkipDigits(s, i))

\* The index just past (?:TL|Lira) at i, 0 when there is none
CurrencyEnd(s, i) ==
    IF MatchesAt(s, i, <<"T","L">>) THEN i + 2
    ELSE IF MatchesAt(s, i, <<"Lira">>) THEN i + 1
    ELSE 0

\* The index just past the words of a keyword, \s* between them, 0 when they are not at i
RECURSIVE KeywordEnd(_, _, _)
KeywordEnd(s, i, words) ==
    IF ~MatchesAt(s, i, Head(words)) THEN 0
    ELSE IF Len(words) = 1 THEN i + Len(Head(words))
    ELSE KeywordEnd(s, SkipWs(s, i + Len(Head(words))), Tail(words))

\* A keyword pattern  W1\s*W2 ... \s*[:=]?\s* (\*?\s*)? (amount) (\s*(?:TL|Lira))[?]
\*   star: the optional asterisk is allowed; spaced: blanks inside the amount are allowed;
\*   currency: "none", "optional" or "required"
Kw(words, star, spaced, currency) ==
    [kind |-> "keyword", words |-> words, star |-> star, spaced |-> spaced,
     currency |-> currency]

\* ([\d]{1,}[.,]\d{2})\s*(?:TL|Lira)
CurrencyAmountPattern == [kind |-> "currency_amount"]

\* \*(\d{1,}[.,]\d{2})
AsteriskPricePattern == [kind |-> "asterisk_price"]

\* A keyword pattern from the index b at which its amount starts
KeywordAmount(s, b, p) ==
    LET Ended(e, c, u) ==
            IF e = 0 THEN NoMatch
            ELSE IF p.currency = "none" THEN [cap |-> SubSeq(s, b, e - 1), end |-> e]
            ELSE IF u # 0 THEN [cap |-> SubSeq(s, b, e - 1), end |-> u]
            ELSE IF p.currency = "optional" THEN [cap |-> SubSeq(s, b, e - 1), end |-> c]
            ELSE NoMatch
        Spaces(e, c) == Ended(e, c, CurrencyEnd(s, c))
        Got(e) == Spaces(e, SkipWs(s, e))
    IN  Got(AmountEnd(s, b, 1, p.spaced))

\* One attempt of pattern p at index i of s: the captured group and the end of the match
PatternMatch(s, i, p) ==
    LET Keyword(k) ==
            IF k = 0 THEN NoMatch
            ELSE LET Colon(a) ==
                         KeywordAmount(s, IF p.star THEN SkipWs(s, SkipOpt(s, a, {"*"})) ELSE a, p)
                 IN  Colon(SkipWs(s, SkipOpt(s, SkipWs(s, k), {":", "="})))
        Currency(e, u) ==
            IF e = 0 \/ u = 0 THEN NoMatch ELSE [cap |-> SubSeq(s, i, e - 1), end |-> u]
        Bare(e) == Currency(e, CurrencyEnd(s, SkipWs(s, e)))
        Price(e) ==
            IF i > Len(s) \/ s[i] # "*" \/ e = 0 THEN NoMatch
            ELSE [cap |-> SubSeq(s, i + 1, e - 1), end |-> e]
    IN  IF p.kind = "keyword" THEN Keyword(KeywordEnd(s, i, p.words))
        ELSE IF p.kind = "currency_amount" THEN Bare(AmountEnd(s, i, 1, FALSE))
        ELSE Price(AmountEnd(s, i + 1, 1, FALSE))

\* re.finditer / re.findall: the captured groups of the matches of p in s from index i on,
\* left to right and not overlapping.  The callers only take the minimum, the maximum or
\* the distinct values, so the captures are collected as a set.
RECURSIVE FindAll(_, _, _)
FindAll(s, i, p) ==
    LET Step(m) == {m.cap} \cup FindAll(s, m.end, p)
        Leftmost(starts) == IF starts = {} THEN {} ELSE Step(PatternMatch(s, Min(starts), p))
    IN  Leftmost({ j \in i..Len(s) : PatternMatch(s, j, p) # NoMatch })

\* turkish_total_patterns
turkish_total_patterns ==
    << Kw(<<<<"T","O","P","L","A","M">>>>, TRUE, TRUE, "none"),
       Kw(<<<<"G","E","N","E","L">>, <<"T","O","P","L","A","M">>>>, TRUE, TRUE, "none"),
       Kw(<<<<"T","O","P","L","A","M">>, <<"T","U","T","A","R">>>>, TRUE, TRUE, "none"),
       Kw(<<<<"A","R","A">>, <<"T","O","P","L","A","M">>>>, TRUE, TRUE, "none"),
       Kw(<<<<"G","E","N","E","L">>, <<"T","O","P">>>>, TRUE, TRUE, "none"),
       Kw(<<<<"T","O","P","K","D","V">>>>, TRUE, TRUE, "none") >>

\* turkish_currency_patterns
turkish_currency_patterns ==
    << Kw(<<<<"T","O","P","L","A","M">>>>, FALSE, FALSE, "required"),
       Kw(<<<<"G","E","N","E","L">>, <<"T","O","P","L","A","M">>>>, FALSE, FALSE, "required"),
       Kw(<<<<"T","O","P","L","A","M">>, <<"T","U","T","A","R">>>>, FALSE, FALSE, "required") >>

\* payment_patterns; a class [Idot I] or an optional letter is written as its alternatives
payment_patterns ==
    << Kw(<<<<"N","A","K","Idot","T">>>>, FALSE, FALSE, "none"),
       Kw(<<<<"N","A","K","I","T">>>>, FALSE, FALSE, "none"),
       Kw(<<<<"K","R","E","D","Idot">>, <<"K","A","R","T">>>>, FALSE, FALSE, "none"),
       Kw(<<<<"K","R","E","D","I">>, <<"K","A","R","T">>>>, FALSE, FALSE, "none"),
       Kw(<<<<"K","R","E","D","Idot">>, <<"K","A","R","T","Idot">>>>, FALSE, FALSE, "none"),
       Kw(<<<<"K","R","E","D","I">>, <<"K","A","R","T","Idot">>>>, FALSE, FALSE, "none"),
       Kw(<<<<"K","R","E","D","Idot">>, <<"K","A","R","T","I">>>>, FALSE, FALSE, "none"),
       Kw(<<<<"K","R","E","D","I">>, <<"K","A","R","T","I">>>>, FALSE, FALSE, "none"),
       Kw(<<<<"O","D","E","N","E","N">>>>, FALSE, FALSE, "none") >>

\* english_patterns
english_patterns ==
    << Kw(<<<<"T","O","T","A","L">>>>, FALSE, FALSE, "optional"),
       Kw(<<<<"G","R","A","N","D">>, <<"T","O","T","A","L">>>>, FALSE, FALSE, "optional") >>

\* The positive amounts the patterns of a list capture in s:
\*   amount = decimal_converter(match.group(1).replace(" ", "")); if amount > 0
PatternAmounts(s, patterns) ==
    { a \in { ToDecimal(RemoveAll(cap, <<" ">>)) :
                cap \in UNION { FindAll(s, 1, patterns[k]) : k \in 1..Len(patterns) } } :
        a > 0 }

\* fallback_patterns, with re.MULTILINE:  (?:^|\n).*?([\d]{2,}[.,]\d{2})\s*(?:TL|Lira)\s*$
\* The tail of the pattern at index p: the index just past the match, 0 when none.
\* After the currency, \s*$ holds at the end of the text or before a line break.
FallbackTailEnd(s, p) ==
    LET Rest(u, r) ==
            IF r > Len(s) THEN r
            ELSE IF \E j \in u..(r - 1) : s[j] = "\n"
            THEN Max({ j \in u..(r - 1) : s[j] = "\n" })
            ELSE 0
        Currency(u) == IF u = 0 THEN 0 ELSE Rest(u, SkipWs(s, u))
        Got(e) == IF e = 0 THEN 0 ELSE Currency(CurrencyEnd(s, SkipWs(s, e)))
    IN  Got(AmountEnd(s, p, 2, FALSE))

\* The index of the line break that ends the line of index i (Len(s) + 1 at the end)
LineEnd(s, i) == Min({ j \in i..(Len(s) + 1) : j = Len(s) + 1 \/ s[j] = "\n" })

\* The captures of the fallback pattern: in each line, the lazy .*? stops at the first
\* index from which the tail matches
FallbackCaptures(s) ==
    LET First(tails) ==
            { q \in tails : \A x \in tails : x >= q \/ LineEnd(s, x) # LineEnd(s, q) }
    IN  { SubSeq(s, q, AmountEnd(s, q, 2, FALSE) - 1) :
            q \in First({ x \in 1..Len(s) : FallbackTailEnd(s, x) # 0 }) }

FallbackAmounts(s) ==
    { a \in { ToDecimal(RemoveAll(cap, <<" ">>)) : cap \in FallbackCaptures(s) } : a > 0 }

\* -------------------------------------------------------------------------
\* _extract_total_amount
\* -------------------------------------------------------------------------

\* The words that mark a change/refund line
ChangeWords == {<<"P","A","R","A">>, <<"U","S","T">>, <<"Uuml","S","T">>, <<"Idot","A","D","E">>, <<"I","A","D","E">>}

ChangeMarks == {<<"U","S","T">>, <<"Uuml","S","T">>, <<"Idot","A","D","E">>, <<"I","A","D","E">>}

\* The test of the filter loop: the line is skipped
IsChangeLine(line) ==
    /\ \E w \in ChangeWords : Contains(line, w)
    /\ \E w \in ChangeMarks : Contains(line, w)

KeepLine(line) == ~IsChangeLine(line)

\* search_text: upper_text without its change/refund lines
SearchText(upper_text) == JoinLines(SelectSeq(SplitLines(upper_text), KeepLine))

\* toplam_amounts were the payment patterns categorised with the TOPLAM patterns: the
\* fault that C2 excludes
ToplamAndPaymentAmounts(search_text) ==
    PatternAmounts(search_text,
                   turkish_total_patterns \o turkish_currency_patterns \o payment_patterns)

\* toplam_amounts: the amounts of the TOPLAM patterns (priority 1 and 2)
ToplamAmounts(search_text) ==
    PatternAmounts(search_text, turkish_total_patterns \o turkish_currency_patterns)

\* What the other patterns of all_patterns add to found_amounts
OtherAmounts(search_text) ==
    PatternAmounts(search_text, payment_patterns \o english_patterns)
        \cup FallbackAmounts(search_text)

\* The largest TOPLAM amount: the fault that C6 excludes
LargestToplam(toplam_amounts) == Max(toplam_amounts)

\* total = min(toplam_amounts): the TOPLAM amount that is returned
ToplamTotal(toplam_amounts) == Min(toplam_amounts)

\* lines[-10:]
LastLinesCount == 10

LastLines(ls) ==
    IF Len(ls) > LastLinesCount THEN SubSeq(ls, Len(ls) - LastLinesCount + 1, Len(ls)) ELSE ls

\* The amounts followed by TL or the lira sign in the last ten lines of upper_text
TrailingCurrencyAmounts(upper_text) ==
    LET In(ls) ==
            { a \in { ToDecimal(cap) :
                        cap \in UNION { FindAll(ls[k], 1, CurrencyAmountPattern) :
                                        k \in 1..Len(ls) } } :
                a > 0 }
    IN  In(LastLines(SplitLines(upper_text)))

\* re.findall(r"^[\s]*\*?\s*(\d{1,}\s*[.,]\s*\d{2})[\s]*$", check_line): a line that is
\* only an amount, with or without the asterisk; <<>> when it is not
StandaloneAmount(line) ==
    LET Cut(b, e) == IF e # 0 /\ SkipWs(line, e) > Len(line) THEN SubSeq(line, b, e - 1) ELSE <<>>
        From(b) == Cut(b, AmountEnd(line, b, 1, TRUE))
    IN  From(SkipWs(line, SkipOpt(line, SkipWs(line, 1), {"*"})))

\* The upper end of the reasonable total range of the line-by-line search
NearbyCeiling == 10000 * Scale

\* The search were one line longer: the fault that C24 excludes
NearbyOffsetsWide == 0..4

\* for offset in range(4)
NearbyOffsets == 0..3

HasTotalKeyword(line) ==
    Contains(line, <<"T","O","P","L","A","M">>) \/ Contains(line, <<"G","E","N","E","L">>) \/ Contains(line, <<"T","O","P","K","D","V">>)

\* The amount of a line that is a standalone amount in range; 0 otherwise
NearbyLineAmount(line) ==
    LET InRange(a) == IF 0 < a /\ a < NearbyCeiling THEN a ELSE 0
    IN  InRange(ToDecimal(RemoveAll(StandaloneAmount(line), <<" ">>)))

\* The amount the line-by-line search returns: that of the first keyword line and first
\* offset whose line is a standalone amount in range; 0 when there is none
NearbyAmount(upper_text) ==
    LET First(ls, hits) ==
            IF hits = {} THEN 0
            ELSE LET h == CHOOSE x \in hits :
                            \A y \in hits : x[1] < y[1] \/ (x[1] = y[1] /\ x[2] <= y[2])
                 IN  NearbyLineAmount(ls[h[1] + h[2]])
        Scan(ls, amounts) ==
            First(ls, { h \in (1..Len(ls)) \X NearbyOffsets :
                          /\ HasTotalKeyword(ls[h[1]])
                          /\ h[1] + h[2] <= Len(ls)
                          /\ amounts[h[1] + h[2]] # 0 })
        Lines(ls) == Scan(ls, [k \in 1..Len(ls) |-> NearbyLineAmount(ls[k])])
    IN  Lines(SplitLines(upper_text))

\* The upper end of the reasonable item price range of the item sum
ItemPriceCeiling == 1000 * Scale

\* price_key[:20]
ItemKeyLen == 20

\* seen_prices were the key the price alone: the fault that C7 excludes
SeenPricesByPrice(upper_text) ==
    LET Keys(ls) ==
            UNION { { <<ToDecimal(cap), <<>>>> :
                        cap \in FindAll(ls[k], 1, AsteriskPricePattern) } : k \in 1..Len(ls) }
    IN  { key \in Keys(SplitLines(upper_text)) : 0 < key[1] /\ key[1] < ItemPriceCeiling }

\* seen_prices: the distinct (price, first 20 characters of the line) keys in range
SeenPrices(upper_text) ==
    LET Keys(ls) ==
            UNION { { <<ToDecimal(cap), Prefix(ls[k], ItemKeyLen)>> :
                        cap \in FindAll(ls[k], 1, AsteriskPricePattern) } : k \in 1..Len(ls) }
    IN  { key \in Keys(SplitLines(upper_text)) : 0 < key[1] /\ key[1] < ItemPriceCeiling }

RECURSIVE SumPrices(_)
SumPrices(keys) ==
    IF keys = {} THEN 0
    ELSE LET k == CHOOSE x \in keys : TRUE IN k[1] + SumPrices(keys \ {k})

\* total_sum
ItemPriceSum(upper_text) == SumPrices(SeenPrices(upper_text))

\* The tiers that run when no pattern of all_patterns matched
LaterTiers(upper_text) ==
    LET Nearby(nearby) == IF nearby # 0 THEN nearby ELSE ItemPriceSum(upper_text)
        Trailing(trailing) ==
            IF trailing # {} THEN Max(trailing) ELSE Nearby(NearbyAmount(upper_text))
    IN  Trailing(TrailingCurrencyAmounts(upper_text))

\* _extract_total_amount(upper_text, _to_decimal); 0 is the code's 0.0, no total found
ExtractTotalAmount(upper_text) ==
    LET Found(toplam, found) ==
            IF toplam # {} THEN ToplamTotal(toplam)
            ELSE IF found # {} THEN Max(found)
            ELSE LaterTiers(upper_text)
        Toplam(search_text, toplam) ==
            Found(toplam, toplam \cup OtherAmounts(search_text))
        Search(search_text) == Toplam(search_text, ToplamAmounts(search_text))
    IN  Search(SearchText(upper_text))

\* -------------------------------------------------------------------------
\* _extract_purchase_date and _parse_date_string
\* -------------------------------------------------------------------------

None == <<>>

\* A date pattern  (keyword \s*[:=]?\s*)? ( \d{1,2} sep \d{1,2} sep (\s*)? \d{minYear,4} )
\*   keywords: the alternatives of the keyword, {} for a pattern without one
DatePattern(keywords, seps, spaceBeforeYear, minYear) ==
    [keywords |-> keywords, seps |-> seps, spaceBeforeYear |-> spaceBeforeYear,
     minYear |-> minYear]

AnySep == {".", "/", "-"}

\* date_patterns, in the order they are tried
date_patterns ==
    << DatePattern({<<"T","A","R","Idot","H">>, <<"T","A","R","I","H">>}, AnySep, TRUE, 2),
       DatePattern({<<"T","A","R","Idot","H">>, <<"T","A","R","I","H">>}, AnySep, FALSE, 2),
       DatePattern({<<"D","A","T","E">>}, AnySep, FALSE, 2),
       DatePattern({}, {"."}, TRUE, 4),
       DatePattern({}, {"."}, FALSE, 4),
       DatePattern({}, {"/"}, FALSE, 4),
       DatePattern({}, {"-"}, FALSE, 4) >>

\* The index just past \d{1,2} followed by a separator of seps at i, 0 when none
DayMonthEnd(s, i, seps) ==
    IF i + 2 <= Len(s) /\ IsDigit(s[i]) /\ IsDigit(s[i + 1]) /\ s[i + 2] \in seps THEN i + 3
    ELSE IF i + 1 <= Len(s) /\ IsDigit(s[i]) /\ s[i + 1] \in seps THEN i + 2
    ELSE 0

\* The index just past the date group of pattern p at i, 0 when none
DateGroupEnd(s, i, p) ==
    LET Year(y, r) == IF r < p.minYear THEN 0 ELSE IF r > 4 THEN y + 4 ELSE y + r
        Space(y) == Year(y, SkipDigits(s, y) - y)
        Month(b) == IF b = 0 THEN 0 ELSE Space(IF p.spaceBeforeYear THEN SkipWs(s, b) ELSE b)
        Day(a) == IF a = 0 THEN 0 ELSE Month(DayMonthEnd(s, a, p.seps))
    IN  Day(DayMonthEnd(s, i, p.seps))

\* The index at which the date group starts when p matches at i, 0 when p does not match
DateGroupStart(s, i, p) ==
    LET Group(g) == IF DateGroupEnd(s, g, p) # 0 THEN g ELSE 0
        After(kw) == Group(SkipWs(s, SkipOpt(s, SkipWs(s, i + Len(kw)), {":", "="})))
    IN  IF p.keywords = {} THEN Group(i)
        ELSE IF \E kw \in p.keywords : MatchesAt(s, i, kw)
        THEN After(CHOOSE w \in p.keywords : MatchesAt(s, i, w))
        ELSE 0

\* re.search(pattern, upper_text).group(1): the group of the leftmost match, None without
DateSearch(s, p) ==
    LET Group(g) == SubSeq(s, g, DateGroupEnd(s, g, p) - 1)
        Leftmost(hits) == IF hits = {} THEN None ELSE Group(Min(hits))
    IN  Leftmost({ g \in { DateGroupStart(s, i, p) : i \in 1..Len(s) } : g # 0 })

IsLeapYear(y) == (y % 4 = 0 /\ y % 100 # 0) \/ y % 400 = 0

\* The days of month m of year y: what datetime(y, m, d) accepts
DaysInMonth(y, m) ==
    IF m \in {4, 6, 9, 11} THEN 30
    ELSE IF m = 2 THEN (IF IsLeapYear(y) THEN 29 ELSE 28)
    ELSE 31

\* re.split(r"[./-]", s)
RECURSIVE SplitDate(_)
SplitDate(s) ==
    IF \E i \in 1..Len(s) : s[i] \in AnySep
    THEN LET i == CHOOSE k \in 1..Len(s) : s[k] \in AnySep /\ \A j \in 1..(k - 1) : s[j] \notin AnySep
         IN  <<SubSeq(s, 1, i - 1)>> \o SplitDate(SubSeq(s, i + 1, Len(s)))
    ELSE <<s>>

\* n as a decimal string of at least width digits: the %Y, %m, %d of strftime
RECURSIVE NatToDigits(_, _)
NatToDigits(n, width) ==
    (IF n < 10 /\ width <= 1 THEN <<>> ELSE NatToDigits(n \div 10, width - 1))
        \o <<CHOOSE c \in Digits : DigitVal(c) = n % 10>>

\* datetime(y, m, d).strftime('%Y-%m-%d')
FormatDate(y, m, d) ==
    NatToDigits(y, 4) \o <<"-">> \o NatToDigits(m, 2) \o <<"-">> \o NatToDigits(d, 2)

\* The two-digit years below the pivot are 20xx, the others 19xx
YearPivot == 50

\* The years _parse_date_string accepts
MinYear == 1900

MaxYear == 2100

\* yyyy after the two-digit pivot
PivotYear(yy) == IF yy < 100 THEN (IF yy < YearPivot THEN 2000 + yy ELSE 1900 + yy) ELSE yy

\* The range checks on dd, mm, yyyy, then datetime(yyyy, mm, dd).strftime('%Y-%m-%d');
\* None when a check fails or datetime raises
CheckedDate(dd, mm, yyyy) ==
    IF /\ 1 <= dd /\ dd <= 31
       /\ 1 <= mm /\ mm <= 12
       /\ MinYear <= yyyy /\ yyyy <= MaxYear
       /\ dd <= DaysInMonth(yyyy, mm)
    THEN FormatDate(yyyy, mm, dd)
    ELSE None

\* re.split(r"[./-]", re.sub(r'\s+', '', date_str)) when it is three numbers, else <<>>
DateParts(date_str) ==
    LET Numbers(parts) ==
            IF Len(parts) # 3 THEN <<>>
            ELSE IF \E k \in 1..3 :
                        parts[k] = <<>> \/ \E j \in 1..Len(parts[k]) : ~IsDigit(parts[k][j])
            THEN <<>>
            ELSE [k \in 1..3 |-> DigitsToNat(parts[k])]
    IN  Numbers(SplitDate(SelectSeq(date_str, LAMBDA c : c \notin Whitespace)))

\* The date read month first: the fault that C8 excludes
ParseDateMonthFirst(date_str) ==
    LET Read(parts) ==
            IF parts = <<>> THEN None ELSE CheckedDate(parts[2], parts[1], PivotYear(parts[3]))
    IN  Read(DateParts(date_str))

\* _parse_date_string(date_str): 'YYYY-MM-DD', or None
ParseDateString(date_str) ==
    LET Read(parts) ==
            IF parts = <<>> THEN None ELSE CheckedDate(parts[1], parts[2], PivotYear(parts[3]))
    IN  Read(DateParts(date_str))

\* _extract_purchase_date(upper_text): the first pattern, in order, whose leftmost match
\* parses; None when there is none
RECURSIVE ExtractFrom(_, _)
ExtractFrom(upper_text, k) ==
    LET Parsed(parsed_date) ==
            IF parsed_date # None THEN parsed_date ELSE ExtractFrom(upper_text, k + 1)
        Found(raw_date) == Parsed(IF raw_date = None THEN None ELSE ParseDateString(raw_date))
    IN  IF k > Len(date_patterns) THEN None
        ELSE Found(DateSearch(upper_text, date_patterns[k]))

ExtractPurchaseDate(upper_text) == ExtractFrom(upper_text, 1)

\* -------------------------------------------------------------------------
\* _extract_vendor_name
\* -------------------------------------------------------------------------

\* bad_prefixes
bad_prefixes ==
    {<<"T","A","R","Idot","H">>,
     <<"T","A","R","I","H">>,
     <<"S","A","A","T">>,
     <<"F","Idot","Scedil">>,
     <<"F","I","S">>,
     <<"K","D","V">>,
     <<"V","E","R","G","Idot">>,
     <<"V","E","R","G","I">>,
     <<"Uuml","R","Uuml","N">>,
     <<"U","R","U","N">>,
     <<"T","O","P","L","A","M">>,
     <<"G","E","N","E","L">>,
     <<"S","U","B","T","O","T","A","L">>,
     <<"N","A","K","Idot","T">>,
     <<"N","A","K","I","T">>,
     <<"K","A","R","T">>,
     <<"T","E","S","E","K","K","U","R">>,
     <<"T","E","Scedil","E","K","K","Uuml","R">>,
     <<"T","E","L",":">>,
     <<"A","D","R","E","S">>,
     <<"A","D","D","R","E","S","S">>,
     <<"F","A","T","U","R","A">>,
     <<"I","N","V","O","I","C","E">>,
     <<"U","N","A","B","L","E">>,
     <<"E","R","R","O","R">>,
     <<"H","O","Scedil","G","E","L","D","I","N">>,
     <<"H","O","S","G","E","L","D","I","N">>,
     <<"Idot","Y","Idot">>,
     <<"I","Y","I">>,
     <<"G","Uuml","N","L","E","R">>,
     <<"G","U","N","L","E","R">>,
     <<"T","E","Scedil","E","K","K","Uuml","R","L","E","R">>,
     <<"T","E","S","E","K","K","U","R","L","E","R">>}

\* turkish_store_indicators
turkish_store_indicators ==
    {<<"M","A","R","K","E","T">>,
     <<"S","Uuml","P","E","R","M","A","R","K","E","T">>,
     <<"S","U","P","E","R","M","A","R","K","E","T">>,
     <<"M","A","Gbreve","A","Z","A">>,
     <<"M","A","G","A","Z","A">>,
     <<"E","C","Z","A","N","E">>,
     <<"E","C","Z">>,
     <<"B","A","K","K","A","L">>,
     <<"M","A","N","A","V">>,
     <<"K","A","S","A","P">>,
     <<"F","I","R","I","N">>,
     <<"R","E","S","T","A","U","R","A","N","T">>,
     <<"R","E","S","T","O","R","A","N">>,
     <<"K","A","F","E">>,
     <<"C","A","F","E">>,
     <<"L","O","K","A","N","T","A">>,
     <<"L","T","D">>,
     <<"A",".","Scedil">>,
     <<"A",".","S">>,
     <<"Idot","N","C">>,
     <<"I","N","C">>,
     <<"G","I","D","A">>,
     <<"T","Idot","C","A","R","E","T">>,
     <<"T","I","C","A","R","E","T">>,
     <<"S","H","O","P">>,
     <<"S","T","O","R","E">>,
     <<"C","E","N","T","E","R">>,
     <<"M","E","R","K","E","Z">>,
     <<"Scedil","U","B","E">>,
     <<"S","U","B","E">>}

\* sum(1 for c in ln if pred(c))
CountDigits(ln) == Cardinality({ i \in 1..Len(ln) : IsDigit(ln[i]) })

CountLetters(ln) == Cardinality({ i \in 1..Len(ln) : IsAlpha(ln[i]) })

\* the letters c with c.upper() == c
CountUpperLetters(ln) ==
    Cardinality({ i \in 1..Len(ln) : IsAlpha(ln[i]) /\ UpperChar(ln[i]) = ln[i] })

\* The longest line the uppercase heuristic takes for a vendor name, and the shortest
VendorMaxLen == 50

VendorMinLen == 3

\* is_candidate_vendor(ln); the ratios are compared without division:
\*   digits / len > 0.3  is  10 * digits > 3 * len,  upper / letters > 0.6  is  5 * upper > 3 * letters
IsCandidateVendor(ln) ==
    LET Heuristic(letters) ==
            IF letters = 0 THEN FALSE
            ELSE /\ 5 * CountUpperLetters(ln) > 3 * letters
                 /\ VendorMinLen <= Len(ln)
                 /\ Len(ln) <= VendorMaxLen
        Test(up) ==
            IF \E bp \in bad_prefixes : StartsWith(up, bp) THEN FALSE
            ELSE IF 10 * CountDigits(ln) > 3 * Len(ln) THEN FALSE
            ELSE IF \E ind \in turkish_store_indicators : Contains(up, ind) THEN TRUE
            ELSE Heuristic(CountLetters(ln))
    IN  Test(Upper(ln))

UnknownVendor == <<"U","n","k","n","o","w","n"," ","V","e","n","d","o","r">>

\* lines[:10]
VendorScanLines == 10

\* The first line whatever it is: the fault that C10 excludes
FirstLineAsVendor(lines) == IF lines = <<>> THEN UnknownVendor ELSE lines[1]

\* _extract_vendor_name(lines)
ExtractVendorName(lines) ==
    LET Fallback(chosen) == IF chosen = UnknownVendor /\ lines # <<>> THEN lines[1] ELSE chosen
        Scan(hits) == Fallback(IF hits = {} THEN UnknownVendor ELSE Strip(lines[Min(hits)]))
    IN  Scan({ k \in 1..Len(lines) : k <= VendorScanLines /\ IsCandidateVendor(lines[k]) })

\* -------------------------------------------------------------------------
\* _extract_line_items
\* -------------------------------------------------------------------------

skip_keywords ==
    << <<"T","O","P","L","A","M">>, <<"G","E","N","E","L">>, <<"T","O","T","A","L">>, <<"T","A","X">>, <<"K","D","V">>, <<"V","E","R","G","Idot">>, <<"V","E","R","G","I">>,
       <<"N","A","K","Idot","T">>, <<"N","A","K","I","T">>, <<"K","A","R","T">>, <<"C","H","A","N","G","E">>,
       <<"P","A","R","A">>, <<"U","S","T","U">>, <<"Uuml","S","T","Uuml">>, <<"Idot","A","D","E">>, <<"I","A","D","E">>,
       <<"T","A","R","Idot","H">>, <<"T","A","R","I","H">>, <<"S","A","A","T">>, <<"F","Idot","Scedil">>, <<"F","I","S">>,
       <<"T","E","Scedil","E","K","K","Uuml","R">>, <<"T","E","S","E","K","K","U","R">>, <<"T","E","Scedil","E","K","K","Uuml","R","L","E","R">>, <<"T","E","S","E","K","K","U","R","L","E","R">>,
       <<"K","A","S","I","Y">>, <<"K","A","S","I","Y","E","R">>, <<"K","A","S","A">>, <<"N","O",":">>, <<"E","K","Uuml">>, <<"Y","A","C">>, <<"V"," ",",","D">>,
       <<"H","O","Scedil">>, <<"H","O","S">>, <<"G","E","L","D","Idot","N">>, <<"G","E","L","D","I","N">>, <<"Idot","Y","Idot">>, <<"I","Y","I">>, <<"G","Uuml","N","L","E","R">>, <<"G","U","N","L","E","R">>,
       <<"B","Idot","Z","Idot">>, <<"B","I","Z","I">>, <<"T","E","R","C","Idot","H">>, <<"T","E","R","C","I","H">>, <<"E","T","T","Idot","Gbreve","Idot","N","Idot","Z">>, <<"E","T","T","I","G","I","N","I","Z">> >>

\* No line were skipped for a keyword: the fault that C27 excludes
NeverSkipLine(upper_line) == FALSE

\* any(word in upper_line for word in skip_keywords)
IsSkipLine(upper_line) ==
    \E k \in 1..Len(skip_keywords) : Contains(upper_line, skip_keywords[k])

\* [\d.,] on one character
IsAmountChar(c) == IsDigit(c) \/ c \in {".", ","}

\* the index just past the characters of an amount that start at i: the greedy [\d.,]*
SkipAmountChars(s, i) ==
    IF i > Len(s) THEN i
    ELSE CHOOSE e \in i..(Len(s) + 1) :
             /\ e = Len(s) + 1 \/ ~IsAmountChar(s[e])
             /\ \A j \in i..(e - 1) : IsAmountChar(s[j])

\* \s+([\d.,]+)\s*(?:TL|Lira)?$ at index i: the captured price, <<>> when there is no match
PriceTail(s, i) ==
    LET Closed(q) ==
            \/ q = Len(s) + 1
            \/ MatchesAt(s, q, <<"T","L">>) /\ q + 2 = Len(s) + 1
            \/ MatchesAt(s, q, <<"Lira">>) /\ q = Len(s)
        Price(p, e) == IF e > p /\ Closed(SkipWs(s, e)) THEN SubSeq(s, p, e - 1) ELSE <<>>
        From(p) == Price(p, SkipAmountChars(s, p))
    IN  IF i <= Len(s) /\ s[i] \in Whitespace THEN From(SkipWs(s, i)) ELSE <<>>

\* \s+%?\d*\s*\*(\d{1,}[.,]\d{2}) at index i: the captured price, <<>> when no match
AsteriskTail(s, i) ==
    LET Price(p, e) == IF e = 0 THEN <<>> ELSE SubSeq(s, p, e - 1)
        Star(k) ==
            IF k <= Len(s) /\ s[k] = "*" THEN Price(k + 1, AmountEnd(s, k + 1, 1, FALSE))
            ELSE <<>>
    IN  IF i <= Len(s) /\ s[i] \in Whitespace
        THEN Star(SkipWs(s, SkipDigits(s, SkipOpt(s, SkipWs(s, i), {"%"}))))
        ELSE <<>>

NoQuantity == [qty |-> <<>>, price |-> <<>>]

\* \s+(\d+)\s*[xX*]\s*([\d.,]+) at index i: the captured quantity and price
ItemQtyTail(s, i) ==
    LET Price(d, e, p, pe) ==
            IF pe > p THEN [qty |-> SubSeq(s, d, e - 1), price |-> SubSeq(s, p, pe - 1)]
            ELSE NoQuantity
        PriceAt(d, e, p) == Price(d, e, p, SkipAmountChars(s, p))
        Times(d, e, k) ==
            IF e > d /\ k <= Len(s) /\ s[k] \in {"x", "X", "*"}
            THEN PriceAt(d, e, SkipWs(s, k + 1))
            ELSE NoQuantity
        Number(d, e) == Times(d, e, SkipWs(s, e))
        From(d) == Number(d, SkipDigits(s, d))
    IN  IF i <= Len(s) /\ s[i] \in Whitespace THEN From(SkipWs(s, i)) ELSE NoQuantity

\* [A-Za-z Turkish letters 0-9\s\-\.] on one character
IsItemNameChar(c) == IsAlpha(c) \/ IsDigit(c) \/ c \in Whitespace \/ c \in {"-", "."}

\* The rest of a row pattern matches from index i, after a name that ends at i - 1
TailMatches(s, i, pattern) ==
    CASE pattern = "asterisk" -> AsteriskTail(s, i) # <<>>
      [] pattern = "item_qty" -> ItemQtyTail(s, i) # NoQuantity
      [] pattern = "qty" -> PriceTail(s, i) # <<>>
      [] pattern = "item_price" ->
            /\ \A j \in 1..(i - 1) : IsItemNameChar(s[j])
            /\ PriceTail(s, i) # <<>>

\* The lazy group (.+?) that starts at index start: the index of its last character, the
\* first from which the rest of the pattern matches; 0 when there is none
NameEnd(s, start, pattern) ==
    LET First(ends) == IF ends = {} THEN 0 ELSE Min(ends)
    IN  First({ e \in start..Len(s) : TailMatches(s, e + 1, pattern) })

NoName == [name |-> <<>>, price |-> <<>>]

\* (.+?)\s+([\d.,]+)\s*(?:TL|Lira)?$ after a greedy \s+ that covers first - 1 .. last - 1.
\* The name starts at last; when no name from there matches and the blanks are three or
\* more, the \s+ gives back and the name is one blank.
NameAndPrice(s, first, last) ==
    LET Named(e) ==
            IF e # 0 THEN [name |-> SubSeq(s, last, e), price |-> PriceTail(s, e + 1)]
            ELSE IF last - first >= 2 /\ PriceTail(s, last - 1) # <<>>
            THEN [name |-> <<" ">>, price |-> PriceTail(s, last - 1)]
            ELSE NoName
    IN  Named(NameEnd(s, last, "qty"))

\* (?:ADET|AD|X|x)
qty_units == << <<"A","D","E","T">>, <<"A","D">>, <<"X">>, <<"x">> >>

NoQtyRow == [qty |-> <<>>, name |-> <<>>, price |-> <<>>]

\* re.search(qty_pattern, line):
\*   ^(\d+)\s*(?:ADET|AD|X|x)?\s+(.+?)\s+([\d.,]+)\s*(?:TL|Lira)?$
\* first with the unit that stands at k and is followed by a blank, then without a unit
QtyMatch(s) ==
    LET Captured(j, m) ==
            IF m = NoName THEN NoQtyRow
            ELSE [qty |-> SubSeq(s, 1, j - 1), name |-> m.name, price |-> m.price]
        Without(j, k) == IF k > j THEN Captured(j, NameAndPrice(s, j + 1, k)) ELSE NoQtyRow
        Either(j, k, m) == IF m # NoName THEN Captured(j, m) ELSE Without(j, k)
        With(j, k, a) == Either(j, k, NameAndPrice(s, a + 1, SkipWs(s, a)))
        Unit(j, k, units) ==
            IF units = {} THEN Without(j, k)
            ELSE With(j, k, k + Len(qty_units[Min(units)]))
        Blanks(j, k) ==
            Unit(j, k, { n \in 1..Len(qty_units) :
                           /\ MatchesAt(s, k, qty_units[n])
                           /\ k + Len(qty_units[n]) <= Len(s)
                           /\ s[k + Len(qty_units[n])] \in Whitespace })
        Number(j) == IF j > 1 THEN Blanks(j, SkipWs(s, j)) ELSE NoQtyRow
    IN  Number(SkipDigits(s, 1))

\* 0 < price < 10000
PriceCeiling == 10000 * Scale

InPriceRange(price) == price > 0 /\ price < PriceCeiling

\* A float holds integers of at most this many digits
FloatMaxDigits == 309

RECURSIVE DropLeadingZeros(_)
DropLeadingZeros(d) == IF d # <<>> /\ Head(d) = "0" THEN DropLeadingZeros(Tail(d)) ELSE d

\* float(int(d)) raises OverflowError.  The quantities of the receipts are short or longer
\* than any float; of the integers of FloatMaxDigits digits only those above 1.79e308
\* overflow, and the receipts have none.
TooLargeForFloat(d) == Len(DropLeadingZeros(d)) > FloatMaxDigits

\* A line item; unit_price is the exact quotient num / den
LineItem(name, quantity, num, den, total_price, line_number) ==
    [name |-> name, quantity |-> quantity, unit_price |-> [num |-> num, den |-> den],
     total_price |-> total_price, line_number |-> line_number]

\* What one row pattern does with a line: it appends an item, it goes on to the next
\* pattern, it skips the line (continue), or it raises
Appended(item) == [kind |-> "item", item |-> item]

FallThrough == [kind |-> "next"]

Skipped == [kind |-> "skip"]

Raised == [kind |-> "raise"]

\* re.search(r'\d+(?:ML|L|G|KG|GR)', item_name.upper())
HasMeasure(upper_name) ==
    \E i \in 1..Len(upper_name), unit \in {<<"M","L">>, <<"L">>, <<"G">>, <<"K","G">>, <<"G","R">>} :
        IsDigit(upper_name[i]) /\ MatchesAt(upper_name, i + 1, unit)

\* re.sub(r'\d+$', '', item_name)
RECURSIVE DropTrailingDigits(_)
DropTrailingDigits(s) ==
    IF s # <<>> /\ IsDigit(s[Len(s)]) THEN DropTrailingDigits(SubSeq(s, 1, Len(s) - 1)) ELSE s

\* PRIORITY 1:  ^(.+?)\s+%?\d*\s*\*(\d{1,}[.,]\d{2})
AsteriskRow(line, n) ==
    LET Priced(name, price) ==
            IF Len(name) < 2 THEN Skipped
            ELSE IF InPriceRange(price) THEN Appended(LineItem(name, 1, price, 1, price, n))
            ELSE FallThrough
        Clean(name) == IF HasMeasure(Upper(name)) THEN name ELSE Strip(DropTrailingDigits(name))
        Matched(e) ==
            IF e = 0 THEN FallThrough
            ELSE Priced(Clean(Strip(SubSeq(line, 1, e))), ToDecimal(AsteriskTail(line, e + 1)))
    IN  Matched(NameEnd(line, 1, "asterisk"))

\* PRIORITY 2: the quantity, the name and the line total.  price / quantity raises
\* ZeroDivisionError or OverflowError inside the try, and the row goes on to the next pattern
QtyRow(line, n) ==
    LET Divided(name, quantity, price) ==
            IF quantity = 0 THEN FallThrough
            ELSE Appended(LineItem(name, quantity, price, quantity, price, n))
        Priced(qty, name, price) ==
            IF Len(name) < 3 \/ ~InPriceRange(price) \/ TooLargeForFloat(qty) THEN FallThrough
            ELSE Divided(name, DigitsToNat(qty), price)
        Matched(m) ==
            IF m = NoQtyRow THEN FallThrough
            ELSE Priced(m.qty, Strip(m.name), ToDecimal(m.price))
    IN  Matched(QtyMatch(line))

\* Pattern 1:  ^(.+?)\s+(\d+)\s*[xX*]\s*([\d.,]+)   quantity * unit_price is outside any try
ItemQtyRow(line, n) ==
    LET Times(name, quantity, unit_price) ==
            Appended(LineItem(name, quantity, unit_price, 1, quantity * unit_price, n))
        Matched(name, m) ==
            IF TooLargeForFloat(m.qty) THEN Raised
            ELSE Times(name, DigitsToNat(m.qty), ToDecimal(m.price))
        At(e) ==
            IF e = 0 THEN FallThrough
            ELSE Matched(Strip(SubSeq(line, 1, e)), ItemQtyTail(line, e + 1))
    IN  At(NameEnd(line, 1, "item_qty"))

\* str.isdigit()
IsDigitString(s) == s # <<>> /\ \A i \in 1..Len(s) : IsDigit(s[i])

\* Pattern 2:  ^([A-Za-z...0-9\s\-\.]+?)\s+([\d.,]+)\s*(?:TL|Lira)?$
ItemPriceRow(line, n) ==
    LET Priced(name, price) ==
            IF Len(name) < 3 \/ IsDigitString(RemoveAll(name, <<" ">>)) THEN Skipped
            ELSE IF InPriceRange(price) THEN Appended(LineItem(name, 1, price, 1, price, n))
            ELSE FallThrough
        Matched(e) ==
            IF e = 0 THEN FallThrough
            ELSE Priced(Strip(SubSeq(line, 1, e)), ToDecimal(PriceTail(line, e + 1)))
    IN  Matched(NameEnd(line, 1, "item_price"))

\* re.search(r'[A-Za-z...]{3,}', line)
HasWord(s) == \E i \in 1..(Len(s) - 2) : IsAlpha(s[i]) /\ IsAlpha(s[i + 1]) /\ IsAlpha(s[i + 2])

\* re.findall(r'([\d]{1,}[.,]\d{2})', s)[-1] from index i on; last when there is no more
RECURSIVE LastAmount(_, _, _)
LastAmount(s, i, last) ==
    LET Step(e) ==
            IF e = 0 THEN LastAmount(s, i + 1, last) ELSE LastAmount(s, e, SubSeq(s, i, e - 1))
    IN  IF i > Len(s) THEN last ELSE Step(AmountEnd(s, i, 1, FALSE))

\* re.sub(r'[\d.,]+\s*(?:TL|Lira)?', '', s)
RECURSIVE RemoveAmounts(_)
RemoveAmounts(s) ==
    LET Currency(w, c) == SubSeq(s, (IF c # 0 THEN c ELSE w), Len(s))
        Blanks(w) == Currency(w, CurrencyEnd(s, w))
    IN  IF s = <<>> THEN <<>>
        ELSE IF IsAmountChar(Head(s)) THEN RemoveAmounts(Blanks(SkipWs(s, SkipAmountChars(s, 1))))
        ELSE <<Head(s)>> \o RemoveAmounts(Tail(s))

\* Pattern 3: a name of three letters or more and the last amount of the line.  Pattern 2
\* leads here only when it appended nothing, so no item has the line's number yet.
NearbyPriceRow(line, n) ==
    LET Priced(name, price) ==
            IF Len(name) >= 3 /\ InPriceRange(price)
            THEN Appended(LineItem(name, 1, price, 1, price, n))
            ELSE Skipped
        Last(amount) ==
            IF amount = <<>> THEN Skipped
            ELSE Priced(Strip(RemoveAmounts(line)), ToDecimal(amount))
    IN  IF HasWord(line) THEN Last(LastAmount(line, 1, <<>>)) ELSE Skipped

row_patterns == <<"asterisk", "qty", "item_qty", "item_price", "nearby">>

\* One row pattern on the line of number n
RowPattern(line, n, pattern) ==
    CASE pattern = "asterisk" -> AsteriskRow(line, n)
      [] pattern = "qty" -> QtyRow(line, n)
      [] pattern = "item_qty" -> ItemQtyRow(line, n)
      [] pattern = "item_price" -> ItemPriceRow(line, n)
      [] pattern = "nearby" -> NearbyPriceRow(line, n)

\* The row patterns from the k-th on, until one appends, skips or raises
RECURSIVE RowFrom(_, _, _)
RowFrom(line, n, k) ==
    LET Step(o) == IF o.kind = "next" THEN RowFrom(line, n, k + 1) ELSE o
    IN  IF k > Len(row_patterns) THEN Skipped ELSE Step(RowPattern(line, n, row_patterns[k]))

\* The body of the loop for one line
Row(line, n) ==
    IF IsSkipLine(Upper(line)) \/ Len(Strip(line)) < 3 THEN Skipped ELSE RowFrom(line, n, 1)

\* The loop over the lines from the n-th on, after the items found so far
RECURSIVE LineItemsFrom(_, _, _)
LineItemsFrom(ls, n, found) ==
    LET Step(o) ==
            IF o.kind = "raise" THEN [raised |-> TRUE, items |-> <<>>]
            ELSE LineItemsFrom(ls, n + 1, IF o.kind = "item" THEN Append(found, o.item) ELSE found)
    IN  IF n > Len(ls) THEN [raised |-> FALSE, items |-> found] ELSE Step(Row(ls[n], n))

\* _extract_line_items(lines, decimal_converter)
ExtractLineItems(ls) == LineItemsFrom(ls, 1, <<>>)

\* -------------------------------------------------------------------------
\* _extract_purchased_items
\* -------------------------------------------------------------------------

non_item_words ==
    << <<"T","O","P","L","A","M">>, <<"T","O","T","A","L">>, <<"T","A","X">>, <<"K","D","V">>, <<"N","A","K","Idot","T">>, <<"K","A","R","T">>, <<"T","A","R","I","H">>, <<"S","A","A","T">>,
       <<"F","Idot","Scedil">>, <<"T","E","Scedil","E","K","K","Uuml","R">>, <<"T","H","A","N","K">>, <<"A","D","R","E","S">>, <<"T","E","L">>, <<"U","N","A","B","L","E">>, <<"E","R","R","O","R">> >>

\* \d+[.,]\d+ matches at index i
DecimalAt(s, i) ==
    LET Point(e) ==
            e > i /\ e + 1 <= Len(s) /\ s[e] \in {".", ","} /\ IsDigit(s[e + 1])
    IN  Point(SkipDigits(s, i))

\* \s+x\s+\d+ matches at index i
TimesAt(s, i) ==
    LET Number(w) == w <= Len(s) /\ IsDigit(s[w])
        Blank(w) ==
            /\ w + 1 <= Len(s)
            /\ s[w] = "x"
            /\ s[w + 1] \in Whitespace
            /\ Number(SkipWs(s, w + 1))
    IN  i <= Len(s) /\ s[i] \in Whitespace /\ Blank(SkipWs(s, i))

\* re.sub(pattern + r'.*$', '', s): s up to the first match of the pattern
CutAt(s, starts) == IF starts = {} THEN s ELSE SubSeq(s, 1, Min(starts) - 1)

\* The cleaned item name of a line
ItemName(line) ==
    LET Quantity(name) == Strip(CutAt(name, { i \in 1..Len(name) : TimesAt(name, i) }))
    IN  Quantity(Strip(CutAt(line, { i \in 1..Len(line) : DecimalAt(line, i) })))

\* The line names a purchased item
IsItemLine(line) ==
    /\ ~\E k \in 1..Len(non_item_words) : Contains(Upper(line), non_item_words[k])
    /\ \E i \in 1..Len(line) : IsAlpha(line[i])
    /\ Len(Strip(line)) > 2
    /\ Len(Strip(line)) < 50
    /\ ~IsDigitString(Strip(line))
    /\ Len(ItemName(line)) > 2

\* _extract_purchased_items(lines)
ExtractPurchasedItems(ls) ==
    LET Named(item_lines) == Prefix([j \in 1..Len(item_lines) |-> ItemName(item_lines[j])], 10)
    IN  Named(SelectSeq(ls, IsItemLine))

\* -------------------------------------------------------------------------
\* ReceiptParser.calculate_confidence (backend/app/ocr.py)
\* -------------------------------------------------------------------------

\* An Optional value: None, or the value as a one-element tuple
Some(x) == <<x>>

RECURSIVE DaysBeforeMonth(_, _)
DaysBeforeMonth(year, month) ==
    IF month = 1 THEN 0 ELSE DaysInMonth(year, month - 1) + DaysBeforeMonth(year, month - 1)

\* date.toordinal()
Ordinal(d) ==
    LET Before(y) == 365 * y + (y \div 4) - (y \div 100) + (y \div 400)
    IN  Before(d.year - 1) + DaysBeforeMonth(d.year, d.month) + d.day

\* The weights of the fields and the bonus of a plausible value, in hundredths
VendorWeight == 30

AmountWeight == 40

DateWeight == 20

QualityBonus == 10

\* The bonus for a date of the last 30 days subtracted from the score of an older date:
\* the fault that C13 excludes
DateScoreWithPenalty(d, on) ==
    IF d = None THEN 0
    ELSE IF Ordinal(on) - Ordinal(d[1]) <= 30 THEN DateWeight + QualityBonus
    ELSE 0 - QualityBonus

\* if vendor: ... if len(vendor) > 3 and len(vendor) < 30
VendorScore(vendor) ==
    IF vendor = None \/ vendor[1] = <<>> THEN 0
    ELSE IF Len(vendor[1]) > 3 /\ Len(vendor[1]) < 30 THEN VendorWeight + QualityBonus
    ELSE VendorWeight

\* if amount: ... if 0.01 <= amount <= 10000
AmountScore(amount) ==
    IF amount = None \/ amount[1] = 0 THEN 0
    ELSE IF amount[1] * 100 >= Scale /\ amount[1] <= 10000 * Scale
    THEN AmountWeight + QualityBonus
    ELSE AmountWeight

\* if date: ... if (date.today() - date).days <= 30; on is date.today()
DateScore(d, on) ==
    IF d = None THEN 0
    ELSE IF Ordinal(on) - Ordinal(d[1]) <= 30 THEN DateWeight + QualityBonus
    ELSE DateWeight

\* calculate_confidence(vendor, amount, date), in hundredths
CalculateConfidence(vendor, amount, d, on) ==
    LET Capped(confidence) == IF confidence < 100 THEN confidence ELSE 100
    IN  Capped(VendorScore(vendor) + AmountScore(amount) + DateScore(d, on))


\* -------------------------------------------------------------------------
\* ReceiptParser.extract_date
\* -------------------------------------------------------------------------

\* The numeric patterns of DATE_PATTERNS, in their order: day or month first with / or -,
\* year first with / or -, day or month first with any separator.  The patterns with a
\* month name need letters after or before the digits; the labelled patterns TARIH and
\* DATE capture a string that the third pattern captures before them.
parser_date_patterns ==
    << [yearFirst |-> FALSE, pattern |-> DatePattern({}, {"/", "-"}, FALSE, 2)],
       [yearFirst |-> TRUE,  pattern |-> DatePattern({}, {"/", "-"}, FALSE, 2)],
       [yearFirst |-> FALSE, pattern |-> DatePattern({}, AnySep, FALSE, 2)] >>

\* The index just past \d{2,4}[/-]\d{1,2}[/-]\d{1,2} at i, 0 when it does not match
YearFirstEnd(s, i, seps) ==
    LET Last(c) ==
            IF c = 0 \/ c > Len(s) THEN 0
            ELSE IF ~IsDigit(s[c]) THEN 0
            ELSE IF c + 1 <= Len(s) /\ IsDigit(s[c + 1]) THEN c + 2
            ELSE c + 1
        Year(e) ==
            IF e - i < 2 \/ e - i > 4 \/ e > Len(s) THEN 0
            ELSE IF s[e] \notin seps THEN 0
            ELSE Last(DayMonthEnd(s, e + 1, seps))
    IN  Year(SkipDigits(s, i))

\* The index just past the match of a pattern at i, 0 when it does not match
ParserDateEnd(s, i, p) ==
    IF p.yearFirst THEN YearFirstEnd(s, i, p.pattern.seps) ELSE DateGroupEnd(s, i, p.pattern)

\* re.findall(pattern, text): the matches from i on, from left to right, none overlapping
RECURSIVE ParserFindAll(_, _, _)
ParserFindAll(s, i, p) ==
    LET Match(b, e) == <<SubSeq(s, b, e - 1)>> \o ParserFindAll(s, e, p)
        From(hits) == IF hits = {} THEN <<>> ELSE Match(Min(hits), ParserDateEnd(s, Min(hits), p))
    IN  From({ b \in i..Len(s) : ParserDateEnd(s, b, p) # 0 })

\* The formats that strptime tries on a match, in their order: the order of the fields,
\* the separator, the digits of the year.  The formats with %B or %b need a month name.
DateFormat(order, sep, yearLen) == [order |-> order, sep |-> sep, yearLen |-> yearLen]

date_formats ==
    << DateFormat("mdy", "/", 4), DateFormat("mdy", "-", 4), DateFormat("mdy", ".", 4),
       DateFormat("mdy", "/", 2), DateFormat("mdy", "-", 2), DateFormat("mdy", ".", 2),
       DateFormat("ymd", "/", 4), DateFormat("ymd", "-", 4), DateFormat("ymd", ".", 4),
       DateFormat("dmy", "/", 4), DateFormat("dmy", "-", 4), DateFormat("dmy", ".", 4),
       DateFormat("dmy", "/", 2), DateFormat("dmy", "-", 2), DateFormat("dmy", ".", 2) >>

\* datetime.strptime(date_str, fmt).date(); None for the ValueError
ParserStrptime(date_str, fmt) ==
    LET Date(y, m, d) ==
            IF y >= 1 /\ m \in 1..12 /\ d >= 1 /\ d <= DaysInMonth(y, m)
            THEN [year |-> y, month |-> m, day |-> d]
            ELSE None
        Year(yy) ==
            IF fmt.yearLen = 4 THEN DigitsToNat(yy)
            ELSE IF DigitsToNat(yy) < 69 THEN 2000 + DigitsToNat(yy) ELSE 1900 + DigitsToNat(yy)
        Fields(yy, mm, dd) ==
            IF Len(yy) # fmt.yearLen \/ Len(mm) > 2 \/ Len(dd) > 2 THEN None
            ELSE Date(Year(yy), DigitsToNat(mm), DigitsToNat(dd))
        Parts(p) ==
            IF Len(p) # 3 THEN None
            ELSE IF \E k \in 1..3 : ~IsDigitString(p[k]) THEN None
            ELSE IF date_str[Len(p[1]) + 1] # fmt.sep
                      \/ date_str[Len(p[1]) + Len(p[2]) + 2] # fmt.sep THEN None
            ELSE IF fmt.order = "mdy" THEN Fields(p[3], p[1], p[2])
            ELSE IF fmt.order = "ymd" THEN Fields(p[1], p[2], p[3])
            ELSE Fields(p[3], p[2], p[1])
    IN  Parts(SplitDate(date_str))

\* The matches of the patterns, in the order they are tried
ParserDateMatches(text) ==
    ParserFindAll(text, 1, parser_date_patterns[1])
        \o ParserFindAll(text, 1, parser_date_patterns[2])
        \o ParserFindAll(text, 1, parser_date_patterns[3])

\* date(2000, 1, 1) <= parsed_date <= date.today()
IsSaneDate(parsed_date, on) ==
    /\ parsed_date # None
    /\ Ordinal([year |-> 2000, month |-> 1, day |-> 1]) <= Ordinal(parsed_date)
    /\ Ordinal(parsed_date) <= Ordinal(on)

\* extract_date(text) on the day `on`: the first match and first format that give a date
\* within the range, None without
extract_date(text, on) ==
    LET Pick(matches, h) == ParserStrptime(matches[h[1]], date_formats[h[2]])
        First(matches, hits) ==
            IF hits = {} THEN None
            ELSE Pick(matches, CHOOSE x \in hits : \A y \in hits :
                                   x[1] < y[1] \/ (x[1] = y[1] /\ x[2] <= y[2]))
        Tried(matches) ==
            First(matches, { h \in (1..Len(matches)) \X (1..Len(date_formats)) :
                               IsSaneDate(Pick(matches, h), on) })
    IN  Tried(ParserDateMatches(text))
\* -------------------------------------------------------------------------
\* _parse_receipt_comprehensive
\* -------------------------------------------------------------------------

\* lines = [ln.strip() for ln in text.split('\n') if ln.strip()]
NonEmpty(ln) == ln # <<>>

NormalizeLines(t) ==
    LET Stripped(raw) == SelectSeq([k \in 1..Len(raw) |-> Strip(raw[k])], NonEmpty)
    IN  Stripped(SplitLines(t))

\* upper_text = '\n'.join(lines).upper()
UpperText(ls) == Upper(JoinLines(ls))

\* -------------------------------------------------------------------------
\* The receipts that are scanned: what the OCR engine reads from the image
\* -------------------------------------------------------------------------

\* The most lines a receipt of the amount and item families has
MaxLines == 3

\* An amount as printed: whole part, two decimals, comma as the decimal point
Amount(whole, frac) == [whole |-> whole, frac |-> frac]

FormatAmount(a) == NatToDigits(a.whole, 1) \o <<",">> \o NatToDigits(a.frac, 2)

\* The value of a printed amount, in units of 1/Scale
AmountValue(a) == (a.whole * 100 + a.frac) * (Scale \div 100)

\* The amounts on the receipts of the amount family: change, total, cash tendered
SampleAmounts == << Amount(2, 85), Amount(97, 15), Amount(100, 0) >>

\* The lines with an amount
AmountKinds == {"change", "toplam", "genel", "ara", "nakit", "total", "kdv"}

\* The item lines; the two flour lines agree in their first 20 characters
ItemKinds == <<"ekmek", "sut", "unu_a", "unu_b">>

\* The amounts on the receipts of the item family; the last is above the item price range
ItemAmounts == << Amount(17, 0), Amount(12, 90), Amount(1250, 0) >>

\* The whole parts and decimals of the one-line totals
WholeSamples == {0, 1, 7, 12, 118, 1000, 12345}

FracSamples == {0, 5, 50, 89, 99}

\* A line of a receipt as the OCR engine returns it
RenderLine(l) ==
    CASE l.kind = "change" -> <<"P","A","R","A"," ","Uuml","S","T","Uuml",":"," ">> \o FormatAmount(l.amt) \o <<" ","T","L">>
      [] l.kind = "toplam" -> <<"T","O","P","L","A","M",":"," ">> \o FormatAmount(l.amt) \o <<" ","T","L">>
      [] l.kind = "genel"  -> <<"G","E","N","E","L"," ","T","O","P","L","A","M",":"," ">> \o FormatAmount(l.amt) \o <<" ","T","L">>
      [] l.kind = "ara"    -> <<"A","R","A"," ","T","O","P","L","A","M",":"," ">> \o FormatAmount(l.amt) \o <<" ","T","L">>
      [] l.kind = "nakit"  -> <<"N","A","K","Idot","T",":"," ">> \o FormatAmount(l.amt) \o <<" ","T","L">>
      [] l.kind = "total"  -> <<"T","O","T","A","L",":"," ">> \o FormatAmount(l.amt)
      [] l.kind = "kdv"    -> <<"K","D","V"," ">> \o FormatAmount(l.amt) \o <<" ","T","L">>
      [] l.kind = "ekmek"  -> <<"2"," ","A","D","E","T"," ","E","k","m","e","k"," ","*">> \o FormatAmount(l.amt)
      [] l.kind = "sut"    -> <<"1"," ","A","D","E","T"," ","S","uuml","t"," ","*">> \o FormatAmount(l.amt)
      [] l.kind = "unu_a"  -> <<"1"," ","A","D","E","T"," ","T","a","m"," ","B","u","g","d","a","y"," ","U","n","u"," ","A"," ","*">> \o FormatAmount(l.amt)
      [] l.kind = "unu_b"  -> <<"1"," ","A","D","E","T"," ","T","a","m"," ","B","u","g","d","a","y"," ","U","n","u"," ","B"," ","*">> \o FormatAmount(l.amt)
      [] l.kind = "zeros"  -> <<"T","O","P","L","A","M",":"," ","0">> \o FormatAmount(l.amt) \o <<" ","T","L">>
      [] l.kind = "date"   -> l.keyword \o NatToDigits(l.day, 2) \o <<l.sep>>
                                \o NatToDigits(l.month, 2) \o <<l.sep>>
                                \o (IF l.short THEN NatToDigits(l.year % 100, 2)
                                    ELSE NatToDigits(l.year, 4))
      [] l.kind = "raw"    -> l.txt

\* The text of a receipt: its lines, each ended by a line break
RECURSIVE Render(_)
Render(r) == IF r = <<>> THEN <<>> ELSE RenderLine(Head(r)) \o <<"\n">> \o Render(Tail(r))

\* The sequences of n distinct elements of S
RECURSIVE DistinctSeqs(_, _)
DistinctSeqs(S, n) ==
    IF n = 0 THEN {<<>>}
    ELSE UNION { { <<x>> \o t : t \in DistinctSeqs(S \ {x}, n - 1) } : x \in S }

\* The orders in which the sample amounts are dealt to the lines of a receipt
AmountOrders == DistinctSeqs(1..Len(SampleAmounts), Len(SampleAmounts))

\* The receipts of the amount family: lines of distinct kinds, in any order, line j
\* carrying the j-th amount of an order of the sample amounts
AmountReceipts ==
    UNION { { [j \in 1..n |->
                 [kind |-> ks[j], amt |-> SampleAmounts[ord[((j - 1) % Len(ord)) + 1]]]] :
              ks \in DistinctSeqs(AmountKinds, n), ord \in AmountOrders } :
            n \in 0..MaxLines }

\* The receipts with one total line: TOPLAM or GENEL TOPLAM, any sample amount, with or
\* without a leading zero
OneLineReceipts ==
    { << [kind |-> k, amt |-> Amount(w, f)] >> :
        k \in {"toplam", "genel", "zeros"}, w \in WholeSamples, f \in FracSamples }

\* The item lines, in a fixed order
ItemLines ==
    [ n \in 1..(Len(ItemKinds) * Len(ItemAmounts)) |->
        [kind |-> ItemKinds[((n - 1) \div Len(ItemAmounts)) + 1],
         amt  |-> ItemAmounts[((n - 1) % Len(ItemAmounts)) + 1]] ]

\* The non-decreasing sequences of n numbers of lo..hi
RECURSIVE Ascending(_, _, _)
Ascending(lo, hi, n) ==
    IF n = 0 THEN {<<>>}
    ELSE UNION { { <<x>> \o t : t \in Ascending(x, hi, n - 1) } : x \in lo..hi }

\* The receipts of the item family: item lines only, a line may be repeated.  The item sum
\* is taken over a set of keys, so each collection of lines is printed in one order.
ItemReceipts ==
    UNION { { [j \in 1..n |-> ItemLines[f[j]]] : f \in Ascending(1, Len(ItemLines), n) } :
            n \in 0..MaxLines }

\* The dates printed on the receipts of the date family
DateKeywords == { <<>>, <<"T","A","R","Idot","H",":"," ">>, <<"T","a","r","i","h"," ">>, <<"D","A","T","E",":"," ">> }

DateLines ==
    { [kind |-> "date", keyword |-> kw, sep |-> sp, day |-> d, month |-> m, year |-> y,
       short |-> sh] :
        kw \in DateKeywords, sp \in AnySep, d \in {5, 29, 31, 32}, m \in {2, 9, 13},
        y \in {1999, 2024, 2025, 2099}, sh \in BOOLEAN }

DateReceipts == {<<>>} \cup { <<l>> : l \in DateLines }

\* The lines of the vendor family, and whether each is a vendor candidate as the receipt
\* reader is specified: no non-vendor keyword in front, at most 30% digits, and a store
\* keyword or more than 60% capitals in 3 to 50 characters
VendorSamples ==
    { [kind |-> "raw", txt |-> <<"M","i","g","r","o","s"," ","M","a","r","k","e","t">>,    qualifies |-> TRUE],
      [kind |-> "raw", txt |-> <<"B","I","M">>,              qualifies |-> TRUE],
      [kind |-> "raw", txt |-> <<"A","B","C","D","E","F","G","1","2","3">>,       qualifies |-> TRUE],
      [kind |-> "raw", txt |-> <<"A","B">>,               qualifies |-> FALSE],
      [kind |-> "raw", txt |-> <<"A","B","C","d","e">>,            qualifies |-> FALSE],
      [kind |-> "raw", txt |-> <<"T","O","P","L","A","M"," ","M","A","R","K","E","T">>,    qualifies |-> FALSE],
      [kind |-> "raw", txt |-> <<"A","1","0","1"," ","M","A","R","K","E","T"," ","4","4","1","2">>, qualifies |-> FALSE],
      [kind |-> "raw", txt |-> <<"U","n","k","n","o","w","n"," ","V","e","n","d","o","r">>,   qualifies |-> FALSE] }

\* A line that is no vendor candidate, and how many of them come before the sample lines
Filler == [kind |-> "raw", txt |-> <<"0","2","1","2"," ","5","5","5"," ","1","2"," ","1","2">>, qualifies |-> FALSE]

FillerCounts == {0, 9, 10}

\* The line lists of the vendor family
VendorReceipts ==
    UNION { { [j \in 1..n |-> Filler] \o r : n \in FillerCounts } :
            r \in UNION { DistinctSeqs(VendorSamples, k) : k \in 0..MaxLines } }

\* The texts of the lines of a receipt
Texts(r) == [j \in 1..Len(r) |-> RenderLine(r[j])]

\* The days on which a receipt is processed
Today1 == [year |-> 2025, month |-> 9, day |-> 5]

Today2 == [year |-> 2026, month |-> 11, day |-> 4]

\* The receipts of the split-total family: a total keyword on a line of its own, some
\* lines without an amount, then lines that are only an amount

\* The most lines without an amount between the keyword line and the first amount line
MaxGap == 4

\* A line as printed, with what is printed on it
Printed(role, txt, value) == [kind |-> "raw", role |-> role, txt |-> txt, value |-> value]

KeywordLines ==
    { Printed("keyword", kw, 0) : kw \in { <<"T","O","P","L","A","M">>, <<"G","E","N","E","L">>, <<"T","O","P","K","D","V">> } }

GapLine == Printed("filler", <<"K","A","S","A"," ","2">>, 0)

\* The lines that are only an amount: plain, spaced, zero, above the range of a total
PlainAmountLines ==
    { Printed("standalone", <<"1","2",",","5","0">>, 12500),
      Printed("standalone", <<"9"," ",","," ","9","0">>, 9900),
      Printed("standalone", <<"0",",","0","0">>, 0),
      Printed("standalone", <<"1","2","0","0","0",",","0","0">>, 12000000) }

\* An amount line with the asterisk of an item price
StarAmountLine == Printed("star", <<"*","5",",","0","0">>, 5000)

SecondAmountLine == Printed("standalone", <<"7",",","0","0">>, 7000)

NearbyReceipts ==
    { <<k>> \o [j \in 1..g |-> GapLine] \o <<a>> \o rest :
        k \in KeywordLines, g \in 0..MaxGap, a \in PlainAmountLines \cup {StarAmountLine},
        rest \in { <<>>, <<SecondAmountLine>> } }

\* A total line with a dot between the thousands and a comma before the decimals
ThousandsLine(whole, frac) ==
    Printed("thousands",
            <<"T","O","P","L","A","M",":"," ">> \o NatToDigits(whole \div 1000, 1) \o <<".">>
                \o NatToDigits(whole % 1000, 3) \o <<",">> \o NatToDigits(frac, 2) \o <<" ","T","L">>,
            AmountValue(Amount(whole, frac)))

ThousandsReceipts ==
    { <<ThousandsLine(w, f)>> : w \in {1000, 1234, 12345}, f \in {0, 56} }

\* The receipts of the totals family; the empty receipt is the image without text
TotalsReceipts == {<<>>} \cup NearbyReceipts \cup ThousandsReceipts

\* The receipts with two date lines: a day that exists or the 32nd of month 13, behind any
\* keyword
TwoDateLine(kw, valid, d) ==
    [kind |-> "date", keyword |-> kw, sep |-> ".", day |-> IF valid THEN d ELSE 32,
     month |-> IF valid THEN 9 ELSE 13, year |-> 2025, short |-> FALSE]

TwoDateReceipts ==
    {<<>>} \cup
    { << TwoDateLine(k1, v1, 4), TwoDateLine(k2, v2, 5) >> :
        k1 \in DateKeywords, k2 \in DateKeywords, v1 \in BOOLEAN, v2 \in BOOLEAN }

\* The date lines given to ReceiptParser.extract_date: days and months up to 12 and above
ParserDateLines ==
    { [kind |-> "date", keyword |-> kw, sep |-> sp, day |-> d, month |-> m, year |-> y,
       short |-> sh] :
        kw \in { <<>>, <<"T","A","R","Idot","H",":"," ">> }, sp \in AnySep, d \in {5, 9, 12, 13, 31, 32},
        m \in {2, 9, 12, 13}, y \in {1999, 2020, 2025}, sh \in BOOLEAN }

\* A quantity too long for a float
Nines(n) == [i \in 1..n |-> "9"]

\* The item rows of a receipt, as the OCR engine reads them
RowSamples ==
    << <<"E","K","M","E","K"," ","%","1"," ","*","5",",","0","0">>, <<"K","u","t","u","3","3"," ","%","1","0"," ","*","2","2",",","9","0">>, <<"S","Uuml","T"," ","1","L"," ","%","8"," ","*","1","5",",","5","0">>, <<"E","K","M","E","K"," ","*","0",",","0","0">>,
       <<"E","K","M","E","K"," ","1"," ","*","0",",","0","0">>,
       <<"2"," ","A","D","E","T"," ","S","Uuml","T"," ","1","5",",","5","0">>, <<"3","x"," ","E","K","M","E","K"," ","1","0",",","0","0">>, <<"0"," ","A","D","E","T"," ","S","Uuml","T"," ","1","5",",","5","0">>, <<"2"," ","A","D","E","T"," "," "," ","5",",","0","0">>, <<"2"," ","A","D","E","T"," ","5",",","0","0">>,
       <<"C","O","L","A"," ","2"," ","x"," ","5",",","0","0">>, <<"C","O","L","A"," ","0"," ","x"," ","5",",","0","0">>, <<"C","O","L","A"," ","2"," ","x"," ","0",",","0","0">>, <<"C","O","L","A"," ","1"," ","x"," ","1","2","0","0","0",",","0","0">>,
       <<"C","O","L","A"," ","2"," ","x"," ",".">>, <<"C","O","L","A"," ">> \o Nines(FloatMaxDigits + 1) \o <<" ","x"," ","1",",","0","0">>,
       <<"S","Uuml","T"," ","5",",","5","0"," ","T","L">>, <<"S","Uuml","T"," ","1","0","0","0","0",",","0","0">>, <<"S","Uuml","T"," ","1","2",".","0","0","0",",","5","0">>, <<"A","B">>, <<"K","D","V"," ","1",",","0","0">>, <<" "," ">> >>

\* The rows of a receipt of the row family
MaxRows == 2

\* Receipts of at most MaxRows rows, a row may be repeated; the rows of a receipt stand in
\* the order of RowSamples
RowReceipts ==
    UNION { { [j \in 1..n |-> [kind |-> "raw", txt |-> RowSamples[f[j]]]] :
                f \in Ascending(1, Len(RowSamples), n) } : n \in 0..MaxRows }

\* -------------------------------------------------------------------------
\* services/enhanced_ocr.py: extract_receipt_data_enhanced and its extractors
\* -------------------------------------------------------------------------

\* [A-Z] and [a-z]
AsciiUpper == UpperLetters \ {"Idot", "Uuml", "Scedil", "Ouml", "Gbreve", "Ccedil"}

AsciiLower == LowerLetters \ {"idotless", "uuml", "scedil", "ouml", "gbreve", "ccedil"}

\* The currency sign of the receipts
DollarSign == "$"

\* the index just past the characters of cs that start at i: the greedy [cs]*
SkipIn(s, i, cs) ==
    IF i > Len(s) THEN i
    ELSE CHOOSE e \in i..(Len(s) + 1) :
             /\ e = Len(s) + 1 \/ s[e] \notin cs
             /\ \A j \in i..(e - 1) : s[j] \in cs

\* any(re.match(pattern, first_line, re.IGNORECASE) for pattern in excluded_patterns)
IsExcludedFirstLine(first_line) ==
    LET Excluded(u) ==
            \/ IsDigitString(first_line)
            \/ u = <<"R","E","C","E","I","P","T">>
            \/ u = <<"C","U","S","T","O","M","E","R"," ","C","O","P","Y">>
            \/ StartsWith(u, <<"D","A","T","E",":">>)
            \/ StartsWith(u, <<"T","I","M","E",":">>)
    IN  Excluded(Upper(first_line))

\* Strategy 1: the first line, None when it is excluded or of an unreasonable length
FirstLineVendor(lines) ==
    IF lines # <<>> /\ ~IsExcludedFirstLine(lines[1]) /\ Len(lines[1]) > 2 /\ Len(lines[1]) < 50
    THEN lines[1]
    ELSE None

\* The index just past [A-Z][a-z]+ [A-Z][a-z]+ at i, 0 when it is not there
TitleCaseEnd(s, i) ==
    LET Second(e1, e2) == IF e2 > e1 + 2 THEN e2 ELSE 0
        First(e1) ==
            IF e1 > i + 1 /\ e1 + 1 <= Len(s) /\ s[e1] = " " /\ s[e1 + 1] \in AsciiUpper
            THEN Second(e1, SkipIn(s, e1 + 2, AsciiLower))
            ELSE 0
    IN  IF s[i] \in AsciiUpper THEN First(SkipIn(s, i + 1, AsciiLower)) ELSE 0

\* The index just past [A-Z]{2,} at i, 0 when it is not there
AllCapsEnd(s, i) ==
    IF i + 1 <= Len(s) /\ s[i] \in AsciiUpper /\ s[i + 1] \in AsciiUpper
    THEN SkipIn(s, i, AsciiUpper)
    ELSE 0

\* (?:INC|LLC|CORP|CO|STORE|SHOP|MARKET|RESTAURANT|CAFE)
company_suffixes ==
    <<<<"I","N","C">>, <<"L","L","C">>, <<"C","O","R","P">>, <<"C","O">>, <<"S","T","O","R","E">>, <<"S","H","O","P">>, <<"M","A","R","K","E","T">>, <<"R","E","S","T","A","U","R","A","N","T">>,
      <<"C","A","F","E">>>>

\* The index just past the first alternative of company_suffixes at j, 0 when none is there
SuffixEnd(s, j) ==
    LET First(hits) == IF hits = {} THEN 0 ELSE j + Len(company_suffixes[Min(hits)])
    IN  First({ k \in 1..Len(company_suffixes) : MatchesAt(s, j, company_suffixes[k]) })

\* The index just past (?:THE |THE\s+)?[A-Z][A-Za-z\s&]+(?:INC|...|CAFE) at i, 0 when it is
\* not there.  The greedy run gives back characters until a suffix follows; THE and the
\* blanks after it are characters of the run, so the optional prefix changes no match.
CompanyEnd(s, i) ==
    LET Last(starts) == IF starts = {} THEN 0 ELSE SuffixEnd(s, Max(starts))
        Back(r) == Last({ j \in (i + 2)..r : SuffixEnd(s, j) # 0 })
    IN  IF s[i] \in AsciiUpper
        THEN Back(SkipIn(s, i + 1, AsciiUpper \cup AsciiLower \cup Whitespace \cup {"&"}))
        ELSE 0

\* The index just past business_patterns[k] at i
BusinessEnd(s, i, k) ==
    IF k = 1 THEN TitleCaseEnd(s, i) ELSE IF k = 2 THEN AllCapsEnd(s, i) ELSE CompanyEnd(s, i)

\* re.search(business_patterns[k], full_text).group(1).strip(), None without a match
BusinessSearch(full_text, k) ==
    LET Group(i) == Strip(SubSeq(full_text, i, BusinessEnd(full_text, i, k) - 1))
        Leftmost(starts) == IF starts = {} THEN None ELSE Group(Min(starts))
    IN  Leftmost({ i \in 1..Len(full_text) : BusinessEnd(full_text, i, k) # 0 })

\* 3 <= len(vendor) <= 40
IsReasonableVendor(vendor) == vendor # None /\ 3 <= Len(vendor) /\ Len(vendor) <= 40

\* Strategy 2: the first business pattern whose leftmost match has a reasonable length
BusinessVendor(full_text) ==
    LET First(hits) == IF hits = {} THEN None ELSE BusinessSearch(full_text, Min(hits))
    IN  First({ k \in 1..3 : IsReasonableVendor(BusinessSearch(full_text, k)) })

\* business_keywords, compared in one case
business_keywords ==
    {<<"S","T","O","R","E">>, <<"S","H","O","P">>, <<"M","A","R","K","E","T">>, <<"R","E","S","T","A","U","R","A","N","T">>, <<"C","A","F","E">>, <<"I","N","C">>, <<"L","L","C">>, <<"C","O","R","P">>}

\* Strategy 3: the first of the first five lines that holds a business keyword
KeywordVendor(lines) ==
    LET HasKeyword(u) == \E keyword \in business_keywords : Contains(u, keyword)
        First(hits) == IF hits = {} THEN None ELSE lines[Min(hits)]
    IN  First({ j \in 1..Len(lines) :
                  j <= 5 /\ HasKeyword(Upper(lines[j])) /\ IsReasonableVendor(lines[j]) })

\* extract_vendor_name(lines, full_text): the vendor, None when no strategy finds one
extract_vendor_name(lines, full_text) ==
    LET Third(vendor) == IF vendor # None THEN vendor ELSE KeywordVendor(lines)
        Second(vendor) == IF vendor # None THEN vendor ELSE Third(BusinessVendor(full_text))
    IN  Second(FirstLineVendor(lines))

\* The keywords of total_patterns[1..5]; GRAND is followed by \s+TOTAL
total_keywords == <<<<"T","O","T","A","L">>, <<"A","M","O","U","N","T">>, <<"B","A","L","A","N","C","E">>, <<"G","R","A","N","D">>, <<"S","U","B","T","O","T","A","L">>>>

\* [:\s]*\$?\s*([0-9]+\.?[0-9]{0,2}) from index a on: the group and the end of the match
LabelledAmount(s, a) ==
    LET Fraction(c, e, f) ==
            [cap |-> SubSeq(s, c, (IF f > e + 2 THEN e + 2 ELSE f) - 1),
             end |-> IF f > e + 2 THEN e + 2 ELSE f]
        Point(c, e) == Fraction(c, e, SkipDigits(s, e))
        Whole(c, d) == IF d = c THEN NoMatch ELSE Point(c, SkipOpt(s, d, {"."}))
        Number(c) == Whole(c, SkipDigits(s, c))
    IN  Number(SkipWs(s, SkipOpt(s, SkipIn(s, a, Whitespace \cup {":"}), {DollarSign})))

\* (?:^|\s)\$([0-9]+\.[0-9]{2})(?:\s|$) at i, with re.MULTILINE
StandaloneDollar(s, i) ==
    LET Closed(c, e) ==
            IF e > Len(s) THEN [cap |-> SubSeq(s, c, e - 1), end |-> e]
            ELSE IF s[e] \in Whitespace THEN [cap |-> SubSeq(s, c, e - 1), end |-> e + 1]
            ELSE NoMatch
        Cents(c, d) ==
            IF d > c /\ d + 2 <= Len(s) /\ s[d] = "." /\ IsDigit(s[d + 1]) /\ IsDigit(s[d + 2])
            THEN Closed(c, d + 3)
            ELSE NoMatch
        Dollar(p) ==
            IF p <= Len(s) /\ s[p] = DollarSign THEN Cents(p + 1, SkipDigits(s, p + 1)) ELSE NoMatch
    IN  IF s[i] \in Whitespace THEN Dollar(i + 1)
        ELSE IF i = 1 THEN Dollar(i)
        ELSE IF s[i - 1] = "\n" THEN Dollar(i)
        ELSE NoMatch

\* ([0-9]+\.[0-9]{2})\s*(?:total|amount|balance) at i; u is the text in upper case
AmountBeforeLabel(s, u, i) ==
    LET Label(e, w) ==
            IF MatchesAt(u, w, <<"T","O","T","A","L">>) THEN [cap |-> SubSeq(s, i, e - 1), end |-> w + 5]
            ELSE IF MatchesAt(u, w, <<"A","M","O","U","N","T">>) THEN [cap |-> SubSeq(s, i, e - 1), end |-> w + 6]
            ELSE IF MatchesAt(u, w, <<"B","A","L","A","N","C","E">>) THEN [cap |-> SubSeq(s, i, e - 1), end |-> w + 7]
            ELSE NoMatch
        Cents(d) ==
            IF d > i /\ d + 2 <= Len(s) /\ s[d] = "." /\ IsDigit(s[d + 1]) /\ IsDigit(s[d + 2])
            THEN Label(d + 3, SkipWs(s, d + 3))
            ELSE NoMatch
    IN  Cents(SkipDigits(s, i))

\* One attempt of total_patterns[k] at index i of s; u is the text in upper case
TotalMatch(s, u, i, k) ==
    LET Grand(w) ==
            IF w > i + 5 /\ MatchesAt(u, w, <<"T","O","T","A","L">>) THEN LabelledAmount(s, w + 5) ELSE NoMatch
    IN  IF k = 6 THEN StandaloneDollar(s, i)
        ELSE IF k = 7 THEN AmountBeforeLabel(s, u, i)
        ELSE IF ~MatchesAt(u, i, total_keywords[k]) THEN NoMatch
        ELSE IF k = 4 THEN Grand(SkipWs(s, i + 5))
        ELSE LabelledAmount(s, i + Len(total_keywords[k]))

\* re.finditer(total_patterns[k], text, re.IGNORECASE | re.MULTILINE) from index i on:
\* the groups of the matches, left to right and not overlapping
RECURSIVE TotalCaptures(_, _, _, _)
TotalCaptures(s, u, i, k) ==
    LET Step(m) == <<m.cap>> \o TotalCaptures(s, u, m.end, k)
        Leftmost(starts) == IF starts = {} THEN <<>> ELSE Step(TotalMatch(s, u, Min(starts), k))
    IN  Leftmost({ j \in i..Len(s) : TotalMatch(s, u, j, k) # NoMatch })

\* One cent: Decimal('0.01')
Cent == 10

\* Decimal('9999.99')
TotalCeiling == 9999990

\* 0.01 <= amount <= 9999.99 compares a Decimal with the floats 0.01 and 9999.99; the
\* float 0.01 is above one cent and the float 9999.99 is below 9999.99, so both ends are out
IsReasonableTotal(cap) == Cent < ParseFloat(cap) /\ ParseFloat(cap) < TotalCeiling

\* amounts_found of the patterns k..7
RECURSIVE AmountsFound(_, _, _)
AmountsFound(text, u, k) ==
    IF k > 7 THEN <<>>
    ELSE SelectSeq(TotalCaptures(text, u, 1, k), IsReasonableTotal) \o AmountsFound(text, u, k + 1)

\* extract_total_amount(text): the first reasonable amount of the first pattern that has
\* one, in thousandths; None without one
extract_total_amount(text) ==
    LET First(amounts_found) ==
            IF amounts_found = <<>> THEN None ELSE Some(ParseFloat(amounts_found[1]))
    IN  First(AmountsFound(text, Upper(text), 1))

\* Decimal('999.99'); the float 999.99 is above it
ItemCeiling == 999990

\* The item of one line of extract_line_items, <<>> when the line gives none:
\*   price_match = re.search(r'\$?([0-9]+\.?[0-9]*)', line)
\*   description = re.sub(r'\$?[0-9]+\.?[0-9]*.*$', '', line).strip()
PricedLine(line) ==
    LET Item(description, amount) ==
            IF Len(description) > 2 /\ Cent < amount /\ amount <= ItemCeiling
            THEN <<[description |-> Prefix(description, 50), amount |-> amount]>>
            ELSE <<>>
        Price(j, g) ==
            Item(Strip(SubSeq(line, 1, j - 1)),
                 ParseFloat(SubSeq(line, g, SkipDigits(line, SkipOpt(line, SkipDigits(line, g), {"."})) - 1)))
        At(j) == Price(j, IF line[j] = DollarSign THEN j + 1 ELSE j)
        Leftmost(starts) == IF starts = {} THEN <<>> ELSE At(Min(starts))
    IN  Leftmost({ j \in 1..Len(line) :
                     \/ IsDigit(line[j])
                     \/ line[j] = DollarSign /\ j < Len(line) /\ IsDigit(line[j + 1]) })

\* The items of the lines from index j on
RECURSIVE PricedLines(_, _)
PricedLines(lines, j) ==
    IF j > Len(lines) THEN <<>> ELSE PricedLine(lines[j]) \o PricedLines(lines, j + 1)

\* extract_line_items(lines): the priced lines after the first, ten at most
extract_line_items(lines) == Prefix(PricedLines(lines, 2), 10)

\* \w
WordChars == Digits \cup UpperLetters \cup LowerLetters \cup {"_"}

\* The months of %b
month_abbr ==
    <<<<"J","A","N">>, <<"F","E","B">>, <<"M","A","R">>, <<"A","P","R">>, <<"M","A","Y">>, <<"J","U","N">>, <<"J","U","L">>, <<"A","U","G">>, <<"S","E","P">>, <<"O","C","T">>,
      <<"N","O","V">>, <<"D","E","C">>>>

\* The month that %b reads from w in either case, 0 when w is no month
MonthOf(w) ==
    LET Named(hits) == IF hits = {} THEN 0 ELSE Min(hits)
    IN  Named({ m \in 1..12 : Upper(w) = month_abbr[m] })

\* No match of a date pattern
NoDate == [end |-> 0, fields |-> <<>>]

\* n digits at i
DigitsAt(s, i, n) == i + n - 1 <= Len(s) /\ \A j \in i..(i + n - 1) : IsDigit(s[j])

\* The index just past \d{lo,2} at i when a character of seps follows it, 0 otherwise
NumberEnd(s, i, lo, seps) ==
    IF DigitsAt(s, i, 2) /\ i + 2 <= Len(s) /\ s[i + 2] \in seps THEN i + 2
    ELSE IF lo = 1 /\ DigitsAt(s, i, 1) /\ i + 1 <= Len(s) /\ s[i + 1] \in seps THEN i + 1
    ELSE 0

\* \d{lo,2}/\d{lo,2}/\d{n} at i: the three numbers and the end of the match
SlashDate(s, i, lo, n) ==
    LET Year(a, b) ==
            IF DigitsAt(s, b + 1, n)
            THEN [end |-> b + 1 + n,
                  fields |-> <<DigitsToNat(SubSeq(s, i, a - 1)), DigitsToNat(SubSeq(s, a + 1, b - 1)),
                               DigitsToNat(SubSeq(s, b + 1, b + n))>>]
            ELSE NoDate
        Second(a, b) == IF b = 0 THEN NoDate ELSE Year(a, b)
        First(a) == IF a = 0 THEN NoDate ELSE Second(a, NumberEnd(s, a + 1, lo, {"/"}))
    IN  First(NumberEnd(s, i, lo, {"/"}))

\* \d{4}-\d{2}-\d{2} at i
IsoDate(s, i) ==
    IF /\ DigitsAt(s, i, 4) /\ DigitsAt(s, i + 5, 2) /\ DigitsAt(s, i + 8, 2)
       /\ s[i + 4] = "-" /\ s[i + 7] = "-"
    THEN [end |-> i + 10,
          fields |-> <<DigitsToNat(SubSeq(s, i, i + 3)), DigitsToNat(SubSeq(s, i + 5, i + 6)),
                       DigitsToNat(SubSeq(s, i + 8, i + 9))>>]
    ELSE NoDate

\* \w{3}\s+ at i: the index of what follows, 0 when it is not there
MonthWordEnd(s, i) ==
    IF /\ i + 3 <= Len(s)
       /\ \A j \in i..(i + 2) : s[j] \in WordChars
       /\ s[i + 3] \in Whitespace
    THEN SkipWs(s, i + 3)
    ELSE 0

\* \w{3}\s+\d{1,2},?\s+\d{4} at i
MonthDayYear(s, i) ==
    LET Year(d, e, y) ==
            IF y > SkipOpt(s, e, {","}) /\ DigitsAt(s, y, 4)
            THEN [end |-> y + 4,
                  fields |-> <<MonthOf(SubSeq(s, i, i + 2)), DigitsToNat(SubSeq(s, d, e - 1)),
                               DigitsToNat(SubSeq(s, y, y + 3))>>]
            ELSE NoDate
        Day(d, e) == IF e = 0 THEN NoDate ELSE Year(d, e, SkipWs(s, SkipOpt(s, e, {","})))
        Word(d) == IF d = 0 THEN NoDate ELSE Day(d, NumberEnd(s, d, 1, Whitespace \cup {","}))
    IN  Word(MonthWordEnd(s, i))

\* \d{1,2}\s+\w{3}\s+\d{4} at i
DayMonthYear(s, i) ==
    LET Year(e, w, y) ==
            IF y # 0 /\ DigitsAt(s, y, 4)
            THEN [end |-> y + 4,
                  fields |-> <<DigitsToNat(SubSeq(s, i, e - 1)), MonthOf(SubSeq(s, w, w + 2)),
                               DigitsToNat(SubSeq(s, y, y + 3))>>]
            ELSE NoDate
        Word(e, w) == Year(e, w, MonthWordEnd(s, w))
        Day(e) == IF e = 0 THEN NoDate ELSE Word(e, SkipWs(s, e))
    IN  Day(NumberEnd(s, i, 1, Whitespace))

\* \w{3}\s+\d{1,2} at i: the year that strptime gives a date without one is 1900
MonthDay(s, i) ==
    LET Day(d, n) ==
            [end |-> d + n,
             fields |-> <<MonthOf(SubSeq(s, i, i + 2)), DigitsToNat(SubSeq(s, d, d + n - 1)), 1900>>]
        Word(d) ==
            IF d = 0 THEN NoDate
            ELSE IF DigitsAt(s, d, 2) THEN Day(d, 2)
            ELSE IF DigitsAt(s, d, 1) THEN Day(d, 1)
            ELSE NoDate
    IN  Word(MonthWordEnd(s, i))

\* One attempt of date_patterns[k] at index i of text
DateMatch(s, i, k) ==
    CASE k = 1 -> SlashDate(s, i, 1, 4)
      [] k = 2 -> IsoDate(s, i)
      [] k = 3 -> SlashDate(s, i, 1, 2)
      [] k = 4 -> SlashDate(s, i, 2, 4)
      [] k = 5 -> MonthDayYear(s, i)
      [] k = 6 -> DayMonthYear(s, i)
      [] k = 7 -> MonthDay(s, i)

\* %y: 69..99 are 1969..1999, 0..68 are 2000..2068
TwoDigitYear(yy) == IF yy >= 69 THEN 1900 + yy ELSE 2000 + yy

\* datetime.strptime of the numbers y, m, d, the year 1900 replaced by current_year, and the
\* range check 2020 <= year <= current_year + 1; None when strptime raises or the year is out
CheckedDay(y, m, d, current_year) ==
    LET Ranged(year) ==
            IF 2020 <= year /\ year <= current_year + 1
            THEN Some([year |-> year, month |-> m, day |-> d])
            ELSE None
    IN  IF 1 <= m /\ m <= 12 /\ 1 <= d /\ d <= DaysInMonth(y, m)
        THEN Ranged(IF y = 1900 THEN current_year ELSE y)
        ELSE None

\* The formats of date_patterns[k] tried in turn on the numbers f of a match
Strptime(f, k, current_year) ==
    LET Or(first, second) == IF first # None THEN first ELSE second
    IN  IF k \in {1, 4}
        THEN Or(CheckedDay(f[3], f[1], f[2], current_year),
                CheckedDay(f[3], f[2], f[1], current_year))
        ELSE IF k = 3
        THEN Or(CheckedDay(TwoDigitYear(f[3]), f[1], f[2], current_year),
                CheckedDay(TwoDigitYear(f[3]), f[2], f[1], current_year))
        ELSE IF k = 2 THEN CheckedDay(f[1], f[2], f[3], current_year)
        ELSE IF k = 6 THEN CheckedDay(f[3], f[2], f[1], current_year)
        ELSE CheckedDay(f[3], f[1], f[2], current_year)

\* The first match of date_patterns[k] from index i on that a format parses to a date in range
RECURSIVE DateFrom(_, _, _, _)
DateFrom(s, i, k, current_year) ==
    LET Step(m, parsed) == IF parsed # None THEN parsed ELSE DateFrom(s, m.end, k, current_year)
        At(m) == Step(m, Strptime(m.fields, k, current_year))
        Leftmost(starts) == IF starts = {} THEN None ELSE At(DateMatch(s, Min(starts), k))
    IN  Leftmost({ j \in i..Len(s) : DateMatch(s, j, k) # NoDate })

\* extract_purchase_date(text) when datetime.now() is the day now: the date, None without one
extract_purchase_date(text, now) ==
    LET First(hits) == IF hits = {} THEN None ELSE DateFrom(text, 1, Min(hits), now.year)
    IN  First({ k \in 1..7 : DateFrom(text, 1, k, now.year) # None })

\* vendors and amounts of generate_mock_data
mock_vendors ==
    <<<<"T","a","r","g","e","t">>, <<"W","a","l","m","a","r","t">>, <<"C","o","s","t","c","o">>, <<"O","f","f","i","c","e"," ","D","e","p","o","t">>, <<"S","t","a","r","b","u","c","k","s">>,
      <<"S","h","e","l","l"," ","G","a","s"," ","S","t","a","t","i","o","n">>, <<"H","o","m","e"," ","D","e","p","o","t">>, <<"B","e","s","t"," ","B","u","y">>, <<"A","m","a","z","o","n"," ","F","r","e","s","h">>, <<"F","e","d","E","x"," ","O","f","f","i","c","e">>,
      <<"C","V","S"," ","P","h","a","r","m","a","c","y">>, <<"S","u","b","w","a","y">>, <<"M","c","D","o","n","a","l","d","'","s">>, <<"K","r","o","g","e","r">>, <<"S","a","f","e","w","a","y">>, <<"W","h","o","l","e"," ","F","o","o","d","s">>,
      <<"D","o","l","l","a","r"," ","G","e","n","e","r","a","l">>>>

mock_amounts ==
    <<15990, 25500, 45670, 78900, 12340, 89450, 156780, 234560, 67890, 98760, 23450, 134670,
      56780, 187900>>

\* int(hashlib.md5(receipt_id.encode()).hexdigest()[:8], 16) of the receipt ids that are used
Md5Prefix(receipt_id) ==
    CASE receipt_id = "r1" -> 2089996062
      [] receipt_id = "c" -> 1250560240

\* generate_mock_data(receipt_id) when datetime.now() is the day now
generate_mock_data(receipt_id, now) ==
    LET Made(vendor, amount, days_ago) ==
            [vendor |-> vendor,
             total |-> Some(amount),
             purchase_date |-> Some([now EXCEPT !.day = IF now.day > days_ago
                                                          THEN now.day - days_ago ELSE 1]),
             items |-> <<[description |-> <<"I","t","e","m"," ","f","r","o","m"," ">> \o vendor, amount |-> amount]>>]
        Hashed(receipt_hash) ==
            Made(mock_vendors[(receipt_hash % Len(mock_vendors)) + 1],
                 mock_amounts[(receipt_hash % Len(mock_amounts)) + 1],
                 receipt_hash % 30)
    IN  Hashed(Md5Prefix(receipt_id))

\* data after the four extractors: a key that is not set holds None (items: no item)
ExtractedData(ocr_text, now) ==
    LET Of(lines) ==
            [vendor |-> extract_vendor_name(lines, ocr_text),
             total |-> extract_total_amount(ocr_text),
             purchase_date |-> extract_purchase_date(ocr_text, now),
             items |-> extract_line_items(lines)]
    IN  Of(NormalizeLines(Strip(ocr_text)))

\* not data.get('vendor') or not data.get('total')
ExtractionFailed(data) == data.vendor = None \/ data.total = None

\* extract_receipt_data_enhanced(ocr_text, receipt_id) when datetime.now() is the day now
extract_receipt_data_enhanced(ocr_text, receipt_id, now) ==
    LET Fallback(data) ==
            IF ExtractionFailed(data) THEN generate_mock_data(receipt_id, now) ELSE data
    IN  Fallback(ExtractedData(ocr_text, now))

\* The lines that the texts of the enhanced extraction are made of
enhanced_samples ==
    <<<<"1","2","3","4","5">>, <<"r","e","c","e","i","p","t">>, <<"D","a","t","e",":"," ","0","9","/","0","5","/","2","0","2","5">>, <<"M","i","g","r","o","s"," ","M","a","r","k","e","t">>, <<"T","H","E"," ","C","O","R","N","E","R"," ","S","T","O","R","E"," ","#","1","2">>,
      <<"A","B"," ","C","O">>, <<"G","R","O","C","E","R","I","E","S"," ","$","4","5",".","6","7">>, <<"T","o","t","a","l",":"," ","1","2",".","3","4">>, <<"T","O","T","A","L"," ","$","7","4",".","6","5">>, <<"J","a","n"," ","1","5">>,
      <<"1","3","/","0","5","/","2","0","1","9">>>>

\* The lines of a text of the enhanced extraction
MaxTextLines == 2

\* Texts of at most MaxTextLines lines in the order of enhanced_samples, a line may be repeated
EnhancedTexts ==
    UNION { { JoinLines([j \in 1..n |-> enhanced_samples[f[j]]]) :
                f \in Ascending(1, Len(enhanced_samples), n) } : n \in 0..MaxTextLines }

\* The ids of the receipts that are extracted
ReceiptIds == {"r1", "c"}

\* The days on which datetime.now() is read
Clocks == {Today1, [year |-> 2026, month |-> 11, day |-> 24]}

\* data before the extractors have run
NoData == [vendor |-> None, total |-> None, purchase_date |-> None, items |-> <<>>]

\* -------------------------------------------------------------------------
\* api/v1/auth.py and core/security.py: user administration
\* -------------------------------------------------------------------------

\* UserRole
UserRoles == {"auditor", "pastor", "treasurer", "admin"}

\* role_hierarchy of role_checker
role_hierarchy ==
    [role \in UserRoles |->
        CASE role = "auditor" -> 1 [] role = "pastor" -> 2 [] role = "treasurer" -> 3
          [] role = "admin" -> 4]

HTTP_200_OK == 200

HTTP_201_CREATED == 201

HTTP_400_BAD_REQUEST == 400

HTTP_401_UNAUTHORIZED == 401

HTTP_403_FORBIDDEN == 403

HTTP_404_NOT_FOUND == 404

\* The answer to a request whose handler raised something else than an HTTPException
HTTP_500_INTERNAL_SERVER_ERROR == 500

\* The rows of the users table
MaxUsers == 3

\* The Authorization header of a request: absent, a bearer token that verify_token rejects,
\* or a token whose payload names the user sub
NoToken == [kind |-> "none", sub |-> 0]

BadToken == [kind |-> "invalid", sub |-> 0]

TokenOf(sub) == [kind |-> "valid", sub |-> sub]

Tokens == {NoToken, BadToken} \cup { TokenOf(sub) : sub \in 1..MaxUsers }

\* What a dependency gives: the id of the current user, or the status of its HTTPException
Allowed(user_id) == [status |-> 0, user_id |-> user_id]

Refused(status) == [status |-> status, user_id |-> 0]

\* get_current_user: the users table is session, a row's index is its id
get_current_user(token, session) ==
    IF token.kind # "valid" THEN Refused(HTTP_401_UNAUTHORIZED)
    ELSE IF token.sub \notin DOMAIN session THEN Refused(HTTP_401_UNAUTHORIZED)
    ELSE Allowed(token.sub)

\* get_current_active_user
get_current_active_user(token, session) ==
    LET Active(current_user) ==
            IF current_user.status # 0 THEN current_user
            ELSE IF ~session[current_user.user_id].is_active THEN Refused(HTTP_400_BAD_REQUEST)
            ELSE current_user
    IN  Active(get_current_user(token, session))

\* A dependency that asks for an active user of whatever role
require_active(required_role, token, session) == get_current_active_user(token, session)

\* require_role(required_role): role_checker
require_role(required_role, token, session) ==
    LET Checked(current_user) ==
            IF current_user.status # 0 THEN current_user
            ELSE IF role_hierarchy[session[current_user.user_id].role] < role_hierarchy[required_role]
            THEN Refused(HTTP_403_FORBIDDEN)
            ELSE current_user
    IN  Checked(get_current_active_user(token, session))

\* require_admin = require_role(UserRole.ADMIN)
require_admin(token, session) == require_role("admin", token, session)

\* A row of the users table (the password hash and the timestamps are left out)
UserRow(username, email, role, is_active) ==
    [username |-> username, email |-> email, role |-> role, is_active |-> is_active]

\* No value were ever found in the table: the fault that C21 excludes
NeverRegistered(session, field, value) == FALSE

\* session.exec(select(User).where(User.<field> == value)).first() is a row
IsRegistered(session, field, value) == \E id \in DOMAIN session : session[id][field] = value

\* The tables before the first request: the administrator and one other user
SeededUsers ==
    { <<UserRow("admin", "admin@example.com", "admin", a),
        UserRow("user", "user@example.com", role, b)>> :
        a \in BOOLEAN, role \in UserRoles, b \in BOOLEAN }

\* The bodies of POST /auth/register: UserCreate
user_data_samples ==
    { [username |-> n[1], email |-> n[2], role |-> role] :
        n \in { <<"testuser", "test@example.com">>, <<"other", "other@example.com">>,
                <<"admin", "new@example.com">>, <<"newname", "admin@example.com">> },
        role \in {"pastor", "admin"} }

\* The bodies of PUT /auth/users/{user_id}: UserUpdate, a field that is not sent is None
UserUpdate(username, email, role, is_active) ==
    [username |-> username, email |-> email, role |-> role, is_active |-> is_active]

user_update_samples ==
    { UserUpdate(None, None, Some("treasurer"), Some(FALSE)),
      UserUpdate(None, None, Some("admin"), Some(TRUE)),
      UserUpdate(None, None, Some("auditor"), None),
      UserUpdate(None, None, None, None),
      UserUpdate(Some("admin"), None, None, Some(TRUE)),
      UserUpdate(None, Some("admin@example.com"), Some("pastor"), Some(TRUE)),
      UserUpdate(Some("user"), None, None, None),
      UserUpdate(Some("newname"), Some("user@example.com"), None, None),
      UserUpdate(Some("newname"), None, None, None) }

\* A request (the operation, the Authorization header, the path and body parameters) and
\* the answer to it
Answer(op, token, args, status, body) ==
    [op |-> op, token |-> token, args |-> args, status |-> status, body |-> body]

NoExchange == Answer("none", NoToken, None, 0, None)

VARIABLES
    receipt,        \* the receipt that was photographed
    today,          \* the day the receipt is processed
    text,           \* raw_text: what extract_text returned
    pc,             \* the step of the processing
    lines,          \* the stripped, non-empty lines of the text
    upper_text,     \* the lines joined and upper-cased
    vendor_name,
    date_str,
    total_amount,
    currency,
    confidence,     \* in hundredths
    line_items,
    items,
    scored,         \* the call of ReceiptParser.calculate_confidence
    calls,          \* the invocations of extract_receipt_data_enhanced
    users,          \* the users table
    exchange,       \* the last request to the API and its answer
    parsed,         \* the call of ReceiptParser.extract_date
    receipts,       \* the receipts table
    tasks,          \* the background tasks that were created and have not ended
    uploads         \* what the OCR service answers for each file under settings.upload_path

vars ==
    <<receipt, today, text, pc, lines, upper_text, vendor_name, date_str, total_amount,
      currency, confidence, line_items, items, scored, calls, users, exchange, parsed,
      receipts, tasks, uploads>>

\* The variables of the other components
others == <<scored, calls, users, exchange, parsed, receipts, tasks, uploads>>

\* The date parser and the receipts service
stored == <<parsed, receipts, tasks, uploads>>

\* No call of ReceiptParser.extract_date
NotParsed == [pc |-> "idle", text |-> <<>>, on |-> Today1, date |-> None]

\* No call of extract_date, no receipt, no task
StoredIdle ==
    /\ parsed = NotParsed
    /\ receipts = <<>>
    /\ tasks = <<>>
    /\ uploads = <<>>

\* No call of calculate_confidence
NotScored == [pc |-> "idle", vendor |-> None, amount |-> None, date |-> None, on |-> Today1,
              confidence |-> 0]

\* The other components at rest
OthersIdle ==
    /\ scored = NotScored
    /\ calls = <<>>
    /\ users = <<>>
    /\ exchange = NoExchange
    /\ StoredIdle

\* The state before extract_structured_data has parsed anything
Fresh(r, d) ==
    /\ receipt = r
    /\ today = d
    /\ text = Render(r)
    /\ pc = "start"
    /\ lines = <<>>
    /\ upper_text = <<>>
    /\ vendor_name = <<>>
    /\ date_str = None
    /\ total_amount = 0
    /\ currency = ""
    /\ confidence = 0
    /\ line_items = <<>>
    /\ items = <<>>
    /\ OthersIdle

Init == \E r \in AmountReceipts \cup OneLineReceipts : Fresh(r, Today1)

InitItems == \E r \in ItemReceipts : Fresh(r, Today1)

InitDates == \E r \in DateReceipts, d \in {Today1, Today2} : Fresh(r, d)

\* A call of _extract_vendor_name(lines) on its own
VendorCall(r, d) ==
    /\ receipt = r
    /\ today = d
    /\ text = <<>>
    /\ pc = "vendor_call"
    /\ lines = Texts(r)
    /\ upper_text = <<>>
    /\ vendor_name = <<>>
    /\ date_str = None
    /\ total_amount = 0
    /\ currency = ""
    /\ confidence = 0
    /\ line_items = <<>>
    /\ items = <<>>
    /\ OthersIdle

InitRows == \E r \in RowReceipts : Fresh(r, Today1)

InitTotals == \E r \in TotalsReceipts : Fresh(r, Today1)

InitTwoDates == \E r \in TwoDateReceipts : Fresh(r, Today1)

InitVendor ==
    \E r \in VendorReceipts :
        \/ VendorCall(r, Today1)
        \/ Len(r) <= MaxLines /\ Fresh(r, Today1)

\* extract_structured_data, no text: the error result
CouldNotRead == <<"C","o","u","l","d"," ","n","o","t"," ","r","e","a","d"," ","i","m","a","g","e">>

\* The unread image, taken for an image without text only when the text is empty: the
\* fault that C14 excludes
IsEmptyText(raw_text) == raw_text = <<>>

\* not (raw_text and raw_text.strip())
IsBlankText(raw_text) == Strip(raw_text) = <<>>

ReadFailed ==
    /\ pc = "start"
    /\ IsBlankText(text)
    /\ vendor_name' = CouldNotRead
    /\ total_amount' = 0
    /\ currency' = "TL"
    /\ date_str' = None
    /\ confidence' = 10
    /\ line_items' = <<>>
    /\ items' = <<>>
    /\ pc' = "done"
    /\ UNCHANGED <<receipt, today, text, lines, upper_text, others>>

\* _parse_receipt_comprehensive: lines and upper_text
Normalize ==
    /\ pc = "start"
    /\ ~IsBlankText(text)
    /\ lines' = NormalizeLines(text)
    /\ upper_text' = UpperText(lines')
    /\ pc' = "vendor"
    /\ UNCHANGED <<receipt, today, text, vendor_name, date_str, total_amount, currency,
                   confidence, line_items, items, others>>

\* 1. vendor detection
ExtractVendor ==
    /\ pc \in {"vendor", "vendor_call"}
    /\ vendor_name' = ExtractVendorName(lines)
    /\ pc' = IF pc = "vendor" THEN "date" ELSE "vendor_returned"
    /\ UNCHANGED <<receipt, today, text, lines, upper_text, date_str, total_amount,
                   currency, confidence, line_items, items, others>>

\* 2. date extraction
ExtractDate ==
    /\ pc = "date"
    /\ date_str' = ExtractPurchaseDate(upper_text)
    /\ pc' = "total"
    /\ UNCHANGED <<receipt, today, text, lines, upper_text, vendor_name, total_amount,
                   currency, confidence, line_items, items, others>>

\* 3. total amount
ExtractTotal ==
    /\ pc = "total"
    /\ total_amount' = ExtractTotalAmount(upper_text)
    /\ pc' = "items"
    /\ UNCHANGED <<receipt, today, text, lines, upper_text, vendor_name, date_str,
                   currency, confidence, line_items, items, others>>

\* 5. line items and 6. items list: an exception of _extract_line_items leaves
\* _parse_receipt_comprehensive
ExtractItems ==
    /\ pc = "items"
    /\ LET Returned(r) ==
               IF r.raised THEN pc' = "raised" /\ UNCHANGED <<line_items, items>>
               ELSE /\ pc' = "return"
                    /\ line_items' = r.items
                    /\ items' = ExtractPurchasedItems(lines)
       IN  Returned(ExtractLineItems(lines))
    /\ UNCHANGED <<receipt, today, text, lines, upper_text, vendor_name, date_str,
                   total_amount, currency, confidence, others>>

\* The confidence of a result with a total and a vendor, and of any other result
HighConfidence == 95

LowConfidence == 70

\* confidence = 0.95 if total_amount > 0 and vendor_name != 'Unknown Vendor' else 0.7
ServiceConfidence(total, vendor) ==
    IF total > 0 /\ vendor # UnknownVendor THEN HighConfidence ELSE LowConfidence

\* the returned dictionary
Return ==
    /\ pc = "return"
    /\ confidence' = ServiceConfidence(total_amount, vendor_name)
    /\ currency' = "TL"
    /\ pc' = "done"
    /\ UNCHANGED <<receipt, today, text, lines, upper_text, vendor_name, date_str,
                   total_amount, line_items, items, others>>

Next ==
    ReadFailed \/ Normalize \/ ExtractVendor \/ ExtractDate \/ ExtractTotal \/ ExtractItems
        \/ Return

Spec == Init /\ [][Next]_vars

SpecItems == InitItems /\ [][Next]_vars

SpecDates == InitDates /\ [][Next]_vars

SpecVendor == InitVendor /\ [][Next]_vars

SpecRows == InitRows /\ [][Next]_vars

SpecTotals == InitTotals /\ [][Next]_vars

SpecTwoDates == InitTwoDates /\ [][Next]_vars

\* -------------------------------------------------------------------------
\* The confidence of a result
\* -------------------------------------------------------------------------

\* The service between two receipts
OcrIdle ==
    /\ receipt = <<>>
    /\ today = Today1
    /\ text = <<>>
    /\ pc = "idle"
    /\ lines = <<>>
    /\ upper_text = <<>>
    /\ vendor_name = <<>>
    /\ date_str = None
    /\ total_amount = 0
    /\ currency = ""
    /\ confidence = 0
    /\ line_items = <<>>
    /\ items = <<>>

\* The vendors, amounts (in thousandths) and dates that calculate_confidence is called with
ConfidenceVendors ==
    {None, Some(<<>>), Some(<<"B","I","M">>), Some(<<"M","i","g","r","o","s">>), Some(<<"A","b","c","d","e","f","g","h","i","j"," ","A","b","c","d","e","f","g","h","i","j"," ","A","b","c","d","e","f","g","h","i">>),
     Some(<<"A","b","c","d","e","f","g","h","i","j"," ","A","b","c","d","e","f","g","h","i","j"," ","A","b","c","d","e","f","g","h","i","j">>)}

ConfidenceAmounts ==
    {None, Some(0), Some(5), Some(10), Some(12500), Some(10000 * Scale),
     Some(10000 * Scale + 10), Some(0 - 5000)}

ConfidenceDates ==
    {None, Some(Today1), Some([year |-> 2025, month |-> 8, day |-> 6]),
     Some([year |-> 2025, month |-> 8, day |-> 5]), Some([year |-> 2025, month |-> 9, day |-> 10]),
     Some([year |-> 2024, month |-> 2, day |-> 29])}

\* The receipts whose results the service scores
ConfidenceReceipts ==
    { [j \in 1..Len(ls) |-> [kind |-> "raw", txt |-> ls[j]]] :
        ls \in { <<>>, <<<<"M","i","g","r","o","s"," ","M","a","r","k","e","t">>>>, <<<<"M","i","g","r","o","s"," ","M","a","r","k","e","t">>, <<"T","O","P","L","A","M",":"," ","1","2",",","5","0"," ","T","L">>>>,
                 <<<<"U","n","k","n","o","w","n"," ","V","e","n","d","o","r">>>>, <<<<"U","n","k","n","o","w","n"," ","V","e","n","d","o","r">>, <<"T","O","P","L","A","M",":"," ","1","2",",","5","0"," ","T","L">>>> } }

InitConfidence ==
    \/ \E v \in ConfidenceVendors, a \in ConfidenceAmounts, d \in ConfidenceDates :
           /\ OcrIdle
           /\ scored = [pc |-> "call", vendor |-> v, amount |-> a, date |-> d, on |-> Today1,
                        confidence |-> 0]
           /\ calls = <<>>
           /\ users = <<>>
           /\ exchange = NoExchange
           /\ StoredIdle
    \/ \E r \in ConfidenceReceipts : Fresh(r, Today1)

\* confidence = parser.calculate_confidence(vendor, amount, extracted_date)
Score ==
    /\ scored.pc = "call"
    /\ scored' = [scored EXCEPT
                    !.confidence = CalculateConfidence(scored.vendor, scored.amount,
                                                       scored.date, scored.on),
                    !.pc = "returned"]
    /\ UNCHANGED <<receipt, today, text, pc, lines, upper_text, vendor_name, date_str,
                   total_amount, currency, confidence, line_items, items, calls, users,
                   exchange, stored>>

NextConfidence == Next \/ Score

SpecConfidence == InitConfidence /\ [][NextConfidence]_vars

\* -------------------------------------------------------------------------
\* The enhanced extraction: two invocations on one text
\* -------------------------------------------------------------------------

\* An invocation extract_receipt_data_enhanced(ocr_text, receipt_id) at the day now
Invocation(ocr_text, receipt_id, now) ==
    [ocr_text |-> ocr_text, receipt_id |-> receipt_id, now |-> now, pc |-> "call",
     data |-> NoData]

InitEnhanced ==
    /\ OcrIdle
    /\ scored = NotScored
    /\ users = <<>>
    /\ exchange = NoExchange
    /\ StoredIdle
    /\ \E t \in EnhancedTexts, r1 \in ReceiptIds, r2 \in ReceiptIds, n1 \in Clocks, n2 \in Clocks :
           calls = <<Invocation(t, r1, n1), Invocation(t, r2, n2)>>

\* The invocation i runs to its return
ExtractEnhanced(i) ==
    /\ calls[i].pc = "call"
    /\ calls' = [calls EXCEPT
                   ![i].data = extract_receipt_data_enhanced(calls[i].ocr_text,
                                                             calls[i].receipt_id, calls[i].now),
                   ![i].pc = "returned"]
    /\ UNCHANGED <<receipt, today, text, pc, lines, upper_text, vendor_name, date_str,
                   total_amount, currency, confidence, line_items, items, scored, users,
                   exchange, stored>>

NextEnhanced == \E i \in 1..Len(calls) : ExtractEnhanced(i)

SpecEnhanced == InitEnhanced /\ [][NextEnhanced]_vars

\* -------------------------------------------------------------------------
\* The user administration: requests to /auth/register and /auth/users
\* -------------------------------------------------------------------------

InitUsers ==
    /\ OcrIdle
    /\ scored = NotScored
    /\ calls = <<>>
    /\ users \in SeededUsers
    /\ exchange = NoExchange
    /\ StoredIdle

\* The variables of the OCR service
ocr ==
    <<receipt, today, text, pc, lines, upper_text, vendor_name, date_str, total_amount,
      currency, confidence, line_items, items>>

\* POST /auth/register: register_user
RegisterUser(token, user_data) ==
    /\ Len(users) < MaxUsers
    /\ LET Created(db_user) ==
               /\ users' = Append(users, db_user)
               /\ exchange' = Answer("register_user", token, user_data, HTTP_201_CREATED, Some(db_user))
           Failed(status) ==
               /\ users' = users
               /\ exchange' = Answer("register_user", token, user_data, status, None)
           Handler(admin) ==
               IF admin.status # 0 THEN Failed(admin.status)
               ELSE IF IsRegistered(users, "username", user_data.username)
               THEN Failed(HTTP_400_BAD_REQUEST)
               ELSE IF IsRegistered(users, "email", user_data.email)
               THEN Failed(HTTP_400_BAD_REQUEST)
               ELSE Created(UserRow(user_data.username, user_data.email, user_data.role, TRUE))
       IN  Handler(require_admin(token, users))
    /\ UNCHANGED <<ocr, scored, calls, stored>>

\* GET /auth/users: list_users
ListUsers(token) ==
    /\ LET Handler(admin) ==
               IF admin.status # 0
               THEN exchange' = Answer("list_users", token, None, admin.status, None)
               ELSE exchange' = Answer("list_users", token, None, HTTP_200_OK, users)
       IN  Handler(require_admin(token, users))
    /\ UNCHANGED <<ocr, scored, calls, users, stored>>

\* The fields that update_user assigns to the row user before it calls user.update_timestamp()
UpdatedUser(user, user_update) ==
    [username |-> IF user_update.username # None THEN user_update.username[1] ELSE user.username,
     email |-> IF user_update.email # None THEN user_update.email[1] ELSE user.email,
     role |-> IF user_update.role # None THEN user_update.role[1] ELSE user.role,
     is_active |-> IF user_update.is_active # None THEN user_update.is_active[1]
                   ELSE user.is_active]

\* user.update_timestamp(): the class User defines no method of this name, so the call
\* raises AttributeError; TRUE would be a class User that has the method
UserHasUpdateTimestamp == FALSE

\* PUT /auth/users/{user_id}: update_user.  When update_timestamp raises, session.commit() is
\* not reached: the assigned fields are dropped with the session and the answer is 500.
UpdateUser(token, user_id, user_update) ==
    /\ LET Committed(user) ==
               /\ users' = [users EXCEPT ![user_id] = user]
               /\ exchange' = Answer("update_user", token, <<user_id, user_update>>, HTTP_200_OK,
                                    Some(user))
           Failed(status) ==
               /\ users' = users
               /\ exchange' = Answer("update_user", token, <<user_id, user_update>>, status, None)
           Taken(field, value) ==
               /\ value # None
               /\ \E id \in DOMAIN users : id # user_id /\ users[id][field] = value[1]
           Handler(admin) ==
               IF admin.status # 0 THEN Failed(admin.status)
               ELSE IF user_id \notin DOMAIN users THEN Failed(HTTP_404_NOT_FOUND)
               ELSE IF Taken("username", user_update.username) THEN Failed(HTTP_400_BAD_REQUEST)
               ELSE IF Taken("email", user_update.email) THEN Failed(HTTP_400_BAD_REQUEST)
               ELSE IF ~UserHasUpdateTimestamp THEN Failed(HTTP_500_INTERNAL_SERVER_ERROR)
               ELSE Committed(UpdatedUser(users[user_id], user_update))
       IN  Handler(require_admin(token, users))
    /\ UNCHANGED <<ocr, scored, calls, stored>>

\* PUT /auth/me: update_current_user_profile.  A new username or email that is taken is
\* answered 400, a role or is_active in the body 403; then current_user.update_timestamp()
\* raises as in update_user, and nothing is committed.
UpdateMe(token, user_update) ==
    /\ LET Failed(status) ==
               /\ users' = users
               /\ exchange' = Answer("update_current_user_profile", token, user_update, status,
                                    None)
           Committed(user_id, user) ==
               /\ users' = [users EXCEPT ![user_id] = user]
               /\ exchange' = Answer("update_current_user_profile", token, user_update,
                                    HTTP_200_OK, Some(user))
           Changes(field, current_user) ==
               /\ user_update[field] # None
               /\ user_update[field][1] # current_user[field]
           Taken(field, current_user) ==
               /\ Changes(field, current_user)
               /\ IsRegistered(users, field, user_update[field][1])
           Profile(user_id) ==
               IF Taken("username", users[user_id]) THEN Failed(HTTP_400_BAD_REQUEST)
               ELSE IF Taken("email", users[user_id]) THEN Failed(HTTP_400_BAD_REQUEST)
               ELSE IF ~(user_update.role = None /\ user_update.is_active = None)
               THEN Failed(HTTP_403_FORBIDDEN)
               ELSE IF ~UserHasUpdateTimestamp THEN Failed(HTTP_500_INTERNAL_SERVER_ERROR)
               ELSE Committed(user_id,
                              UpdatedUser(users[user_id],
                                          [user_update EXCEPT
                                             !.username = IF Changes("username", users[user_id])
                                                          THEN @ ELSE None,
                                             !.email = IF Changes("email", users[user_id])
                                                       THEN @ ELSE None]))
           Handler(current_user) ==
               IF current_user.status # 0 THEN Failed(current_user.status)
               ELSE Profile(current_user.user_id)
       IN  Handler(get_current_active_user(token, users))
    /\ UNCHANGED <<ocr, scored, calls, stored>>

NextUsers ==
    \/ \E token \in Tokens, user_data \in user_data_samples : RegisterUser(token, user_data)
    \/ \E token \in Tokens : ListUsers(token)
    \/ \E token \in Tokens, user_id \in 1..MaxUsers, user_update \in user_update_samples :
           UpdateUser(token, user_id, user_update)
    \/ \E token \in Tokens, user_update \in user_update_samples : UpdateMe(token, user_update)

SpecUsers == InitUsers /\ [][NextUsers]_vars

\* -------------------------------------------------------------------------
\* A call of ReceiptParser.extract_date
\* -------------------------------------------------------------------------

\* The call on the text of a date line, on a day
DateCall(l, on) == [pc |-> "call", line |-> l, text |-> RenderLine(l), on |-> on, date |-> None]

InitParser ==
    /\ OcrIdle
    /\ scored = NotScored
    /\ calls = <<>>
    /\ users = <<>>
    /\ exchange = NoExchange
    /\ receipts = <<>>
    /\ tasks = <<>>
    /\ uploads = <<>>
    /\ \E l \in ParserDateLines, on \in {Today1, Today2} : parsed = DateCall(l, on)

\* date = parser.extract_date(text)
ParseDate ==
    /\ parsed.pc = "call"
    /\ parsed' = [parsed EXCEPT !.date = extract_date(parsed.text, parsed.on),
                                !.pc = "returned"]
    /\ UNCHANGED <<ocr, scored, calls, users, exchange, receipts, tasks, uploads>>

NextParser == ParseDate

SpecParser == InitParser /\ [][NextParser]_vars
\* -------------------------------------------------------------------------
\* api/v1/receipts.py and POST /auth/login: the receipts table and its background tasks
\* -------------------------------------------------------------------------

\* The rows of the receipts table
MaxReceipts == 1

\* The background tasks that have been created and have not ended
MaxTasks == 1

\* The files that are uploaded, by what the OCR engine reads from the stored file: a receipt,
\* nothing (a missing or unreadable image), and a row whose quantity overflows a float
stored_files ==
    [receipt_jpg |-> <<"M","i","g","r","o","s"," ","M","a","r","k","e","t","\n","T","O","P","L","A","M",":"," ","1","2",",","5","0"," ","T","L">>,
     blank_jpg |-> <<>>,
     long_jpg |-> <<"M","i","g","r","o","s"," ","M","a","r","k","e","t","\n","C","O","L","A"," ">> \o Nines(FloatMaxDigits + 1) \o <<" ","x"," ","1",",","0","0">>,
     notes_txt |-> <<>>]

\* ALLOWED_EXTENSIONS of validate_file
AllowedFiles == {"receipt_jpg", "blank_jpg", "long_jpg"}

OcrFailedVendor == <<"O","C","R"," ","F","a","i","l","e","d">>

\* OCRService.extract_structured_data: the error result for a text that is blank, else
\* _parse_receipt_comprehensive, whose exception leaves the call
ParsedData(ls, upper) ==
    [raised |-> ExtractLineItems(ls).raised,
     vendor_name |-> ExtractVendorName(ls),
     total_amount |-> ExtractTotalAmount(upper),
     date |-> ExtractPurchaseDate(upper)]

ParsedLines(ls) == ParsedData(ls, UpperText(ls))

extract_structured_data(raw_text) ==
    IF IsBlankText(raw_text)
    THEN [raised |-> FALSE, vendor_name |-> CouldNotRead, total_amount |-> 0, date |-> None]
    ELSE ParsedLines(NormalizeLines(raw_text))

\* What the OCR service answers for each file
structured ==
    [receipt_jpg |-> extract_structured_data(stored_files.receipt_jpg),
     blank_jpg |-> extract_structured_data(stored_files.blank_jpg),
     long_jpg |-> extract_structured_data(stored_files.long_jpg),
     notes_txt |-> extract_structured_data(stored_files.notes_txt)]

\* A row of the receipts table: the columns that the handlers below read or decide on
ReceiptRow(file, status, vendor, total, date, category, uploader_id) ==
    [file |-> file, status |-> status, extracted_vendor |-> vendor, extracted_total |-> total,
     extracted_date |-> date, category |-> category, uploader_id |-> uploader_id]

\* Receipt(...) of upload_receipt after the OCR service answered
CompletedReceipt(file, form_vendor, data, uploader_id) ==
    ReceiptRow(file, "completed",
               IF form_vendor # None /\ form_vendor[1] # <<>> THEN form_vendor
               ELSE Some(data.vendor_name),
               Some(data.total_amount), data.date, "general", uploader_id)

\* Receipt(...) of upload_receipt after the OCR service raised
FailedReceipt(file, form_vendor, uploader_id) ==
    ReceiptRow(file, "failed",
               IF form_vendor # None /\ form_vendor[1] # <<>> THEN form_vendor
               ELSE Some(OcrFailedVendor),
               None, None, "general", uploader_id)

\* current_user.role in [UserRole.ADMIN, UserRole.TREASURER]
IsTreasury(user) == user.role \in {"admin", "treasurer"}

\* The bodies of PUT /receipts/{receipt_id}: ReceiptUpdate, a field that is not sent is None.
\* vendor_name, total_amount and transaction_date of the schema are keys that update_receipt
\* does not read.
receipt_update_samples ==
    { [category |-> Some("purchaser_portal"), status |-> None],
      [category |-> None, status |-> Some("pending")] }

\* The tables before the first request: the administrator and one other user, no receipt
InitReceipts ==
    /\ OcrIdle
    /\ scored = NotScored
    /\ calls = <<>>
    /\ users \in { <<UserRow("admin", "admin@example.com", "admin", TRUE),
                     UserRow("user", "user@example.com", role, b)>> :
                     role \in {"pastor", "treasurer"}, b \in BOOLEAN }
    /\ exchange = NoExchange
    /\ parsed = NotParsed
    /\ receipts = <<>>
    /\ tasks = <<>>
    /\ uploads = structured

\* POST /auth/login: authenticate_user finds the first row whose username or email is the
\* form's username and verifies the password
Login(username, password_ok) ==
    /\ LET Named == { id \in DOMAIN users :
                        users[id].username = username \/ users[id].email = username }
           First(ids) == CHOOSE id \in ids : \A other \in ids : id <= other
           Answered(status, body) ==
               exchange' = Answer("login", NoToken, <<username, password_ok>>, status, body)
           Handler(user_id) ==
               IF user_id = 0 \/ ~password_ok THEN Answered(HTTP_401_UNAUTHORIZED, None)
               ELSE IF ~users[user_id].is_active THEN Answered(HTTP_400_BAD_REQUEST, None)
               ELSE Answered(HTTP_200_OK, Some(TokenOf(user_id)))
       IN  Handler(IF Named = {} THEN 0 ELSE First(Named))
    /\ UNCHANGED <<ocr, scored, calls, users, stored>>

\* POST /receipts/upload: upload_receipt.  The OCR service is called before the row is
\* created; the row is COMPLETED when the calls return and FAILED when one of them raises.
UploadReceipt(token, file, form_vendor) ==
    /\ Len(receipts) < MaxReceipts
    /\ LET Failed(status) ==
               /\ receipts' = receipts
               /\ exchange' = Answer("upload_receipt", token, file, status, None)
           Created(row) ==
               /\ receipts' = Append(receipts, row)
               /\ exchange' = Answer("upload_receipt", token, file, HTTP_200_OK,
                                    Some(row.status))
           Processed(data, uploader_id) ==
               IF data.raised THEN Created(FailedReceipt(file, form_vendor, uploader_id))
               ELSE Created(CompletedReceipt(file, form_vendor, data, uploader_id))
           Handler(current_user) ==
               IF current_user.status # 0 THEN Failed(current_user.status)
               ELSE IF file \notin AllowedFiles THEN Failed(HTTP_400_BAD_REQUEST)
               ELSE Processed(uploads[file], current_user.user_id)
       IN  Handler(get_current_user(token, users))
    /\ UNCHANGED <<ocr, scored, calls, users, parsed, tasks, uploads>>

\* GET /receipts: get_receipts.  Others than administrators and treasurers see their own rows.
GetReceipts(token) ==
    /\ LET Visible(user_id) ==
               { id \in DOMAIN receipts :
                   IsTreasury(users[user_id]) \/ receipts[id].uploader_id = user_id }
           Handler(current_user) ==
               IF current_user.status # 0
               THEN exchange' = Answer("get_receipts", token, None, current_user.status, None)
               ELSE exchange' = Answer("get_receipts", token, None, HTTP_200_OK,
                                       Some(Visible(current_user.user_id)))
       IN  Handler(get_current_user(token, users))
    /\ UNCHANGED <<ocr, scored, calls, users, stored>>

\* PUT /receipts/{receipt_id}: update_receipt
UpdateReceipt(token, receipt_id, receipt_update) ==
    /\ LET Failed(status) ==
               /\ receipts' = receipts
               /\ exchange' = Answer("update_receipt", token, <<receipt_id, receipt_update>>,
                                    status, None)
           Committed(row) ==
               /\ receipts' = [receipts EXCEPT ![receipt_id] = row]
               /\ exchange' = Answer("update_receipt", token, <<receipt_id, receipt_update>>,
                                    HTTP_200_OK, Some(row.status))
           Updated(row) ==
               [row EXCEPT !.category = IF receipt_update.category # None
                                        THEN receipt_update.category[1] ELSE @,
                           !.status = IF receipt_update.status # None
                                      THEN receipt_update.status[1] ELSE @]
           Handler(current_user) ==
               IF current_user.status # 0 THEN Failed(current_user.status)
               ELSE IF receipt_id \notin DOMAIN receipts THEN Failed(HTTP_404_NOT_FOUND)
               ELSE IF /\ receipts[receipt_id].uploader_id # current_user.user_id
                       /\ ~IsTreasury(users[current_user.user_id])
               THEN Failed(HTTP_403_FORBIDDEN)
               ELSE Committed(Updated(receipts[receipt_id]))
       IN  Handler(get_current_user(token, users))
    /\ UNCHANGED <<ocr, scored, calls, users, parsed, tasks, uploads>>

\* asyncio.create_task(mock_ocr_processing(receipt_id, session)): the task has not started
CreatedTask(receipt_id) == [receipt_id |-> receipt_id, pc |-> "created", receipt |-> None]

\* The columns that the reprocess handlers reset
Reset(row, clear) ==
    IF clear
    THEN [row EXCEPT !.status = "processing", !.extracted_vendor = None,
                     !.extracted_total = None, !.extracted_date = None]
    ELSE [row EXCEPT !.status = "processing"]

\* POST /receipts/{receipt_id}/reprocess: reprocess_receipt
ReprocessReceipt(token, receipt_id) ==
    /\ Len(tasks) < MaxTasks
    /\ LET Failed(status) ==
               /\ UNCHANGED <<receipts, tasks>>
               /\ exchange' = Answer("reprocess_receipt", token, receipt_id, status, None)
           Started ==
               /\ receipts' = [receipts EXCEPT ![receipt_id] = Reset(@, TRUE)]
               /\ tasks' = Append(tasks, CreatedTask(receipt_id))
               /\ exchange' = Answer("reprocess_receipt", token, receipt_id, HTTP_200_OK,
                                    Some("processing"))
           Handler(current_user) ==
               IF current_user.status # 0 THEN Failed(current_user.status)
               ELSE IF ~IsTreasury(users[current_user.user_id]) THEN Failed(HTTP_403_FORBIDDEN)
               ELSE IF receipt_id \notin DOMAIN receipts THEN Failed(HTTP_404_NOT_FOUND)
               ELSE Started
       IN  Handler(get_current_user(token, users))
    /\ UNCHANGED <<ocr, scored, calls, users, parsed, uploads>>

\* The query of reprocess_all_incomplete
LooksIncomplete(row) ==
    \/ row.status \in {"processing", "pending"}
    \/ /\ row.status = "completed"
       /\ \/ row.extracted_vendor \in {None, Some(<<>>)}
          \/ row.extracted_total \in {None, Some(0)}
          \/ row.extracted_date = None

\* The rows that reprocess_all_incomplete resets: the rows of the query that the loop does
\* not skip
ToReprocess(session, force) ==
    { id \in DOMAIN session :
        IF force THEN session[id].category # "purchaser_portal"
        ELSE /\ LooksIncomplete(session[id])
             /\ ~(/\ session[id].category = "purchaser_portal"
                  /\ session[id].extracted_vendor \notin {None, Some(<<>>)}) }

\* The tasks of the loop, in the order of the rows
RECURSIVE TasksFor(_, _)
TasksFor(ids, from) ==
    IF from > MaxReceipts THEN <<>>
    ELSE (IF from \in ids THEN <<CreatedTask(from)>> ELSE <<>>) \o TasksFor(ids, from + 1)

\* POST /receipts/reprocess-all: reprocess_all_incomplete
ReprocessAllIncomplete(token, force) ==
    /\ Len(tasks) + Cardinality(ToReprocess(receipts, force)) <= MaxTasks
    /\ LET Failed(status) ==
               /\ UNCHANGED <<receipts, tasks>>
               /\ exchange' = Answer("reprocess_all_incomplete", token, force, status, None)
           Started(ids) ==
               /\ receipts' = [id \in DOMAIN receipts |->
                                 IF id \in ids
                                 THEN Reset(receipts[id],
                                            receipts[id].category # "purchaser_portal")
                                 ELSE receipts[id]]
               /\ tasks' = tasks \o TasksFor(ids, 1)
               /\ exchange' = Answer("reprocess_all_incomplete", token, force, HTTP_200_OK,
                                    Some(Cardinality(ids)))
           Handler(current_user) ==
               IF current_user.status # 0 THEN Failed(current_user.status)
               ELSE IF users[current_user.user_id].role # "admin"
               THEN Failed(HTTP_403_FORBIDDEN)
               ELSE Started(ToReprocess(receipts, force))
       IN  Handler(get_current_user(token, users))
    /\ UNCHANGED <<ocr, scored, calls, users, parsed, uploads>>

\* The sequence without its element at n
Without(seq, n) == SubSeq(seq, 1, n - 1) \o SubSeq(seq, n + 1, Len(seq))

\* mock_ocr_processing up to the calls of the OCR service: after the sleep the task reads
\* its row in a session of its own, and ends when there is no such row
LoadReceipt(n) ==
    /\ n \in DOMAIN tasks
    /\ tasks[n].pc = "created"
    /\ tasks' = IF tasks[n].receipt_id \notin DOMAIN receipts THEN Without(tasks, n)
                ELSE [tasks EXCEPT ![n].pc = "loaded",
                                   ![n].receipt = Some(receipts[tasks[n].receipt_id])]
    /\ UNCHANGED <<ocr, scored, calls, users, exchange, parsed, receipts, uploads>>

\* The task that kept the status it had read: the fault that C29 excludes
KeptStatus(loaded, data) == loaded

\* The attributes of the row that mock_ocr_processing assigns after the OCR service answered
\* or raised
Assigned(loaded, data) ==
    IF data.raised THEN [loaded EXCEPT !.status = "failed"]
    ELSE [loaded EXCEPT !.status = "completed",
                        !.extracted_vendor = Some(data.vendor_name),
                        !.extracted_total = Some(data.total_amount),
                        !.extracted_date = IF data.date # None THEN data.date ELSE @,
                        !.category = IF @ = "" THEN "general" ELSE @]

\* async_session.commit(): the UPDATE sets the columns whose attribute differs from the
\* value that the session read
Flushed(row, loaded, assigned) ==
    [column \in DOMAIN row |->
        IF assigned[column] # loaded[column] THEN assigned[column] ELSE row[column]]

\* mock_ocr_processing from the calls of the OCR service to the end of the task
FinishTask(n) ==
    /\ n \in DOMAIN tasks
    /\ tasks[n].pc = "loaded"
    /\ LET Commit(receipt_id, loaded) ==
               receipts' = [receipts EXCEPT ![receipt_id] =
                               Flushed(@, loaded, Assigned(loaded, uploads[loaded.file]))]
       IN  Commit(tasks[n].receipt_id, tasks[n].receipt[1])
    /\ tasks' = Without(tasks, n)
    /\ UNCHANGED <<ocr, scored, calls, users, exchange, parsed, uploads>>

\* The steps of the tasks of one row
RunTask(receipt_id) ==
    \E n \in 1..MaxTasks :
        /\ n \in DOMAIN tasks
        /\ tasks[n].receipt_id = receipt_id
        /\ (LoadReceipt(n) \/ FinishTask(n))

ReceiptTokens == {NoToken, TokenOf(1), TokenOf(2)}

NextReceipts ==
    \/ \E username \in {"admin", "user", "user@example.com", "nobody"}, password_ok \in BOOLEAN :
           Login(username, password_ok)
    \/ \E token \in ReceiptTokens, file \in DOMAIN stored_files,
          form_vendor \in {None, Some(<<"B","a","k","k","a","l">>)} :
           UploadReceipt(token, file, form_vendor)
    \/ \E token \in ReceiptTokens : GetReceipts(token)
    \/ \E token \in ReceiptTokens, receipt_id \in 1..MaxReceipts,
          receipt_update \in receipt_update_samples :
           UpdateReceipt(token, receipt_id, receipt_update)
    \/ \E token \in ReceiptTokens, receipt_id \in 1..MaxReceipts :
           ReprocessReceipt(token, receipt_id)
    \/ \E token \in ReceiptTokens, force \in BOOLEAN : ReprocessAllIncomplete(token, force)
    \/ \E n \in 1..MaxTasks : LoadReceipt(n)
    \/ \E n \in 1..MaxTasks : FinishTask(n)

SpecReceipts == InitReceipts /\ [][NextReceipts]_vars

\* The administrator's requests for reprocessing and the tasks that they create
InitReprocess ==
    /\ OcrIdle
    /\ scored = NotScored
    /\ calls = <<>>
    /\ users = <<UserRow("admin", "admin@example.com", "admin", TRUE),
                 UserRow("user", "user@example.com", "pastor", TRUE)>>
    /\ exchange = NoExchange
    /\ parsed = NotParsed
    /\ receipts = <<>>
    /\ tasks = <<>>
    /\ uploads = structured

NextReprocess ==
    \/ \E file \in AllowedFiles : UploadReceipt(TokenOf(1), file, None)
    \/ \E receipt_id \in 1..MaxReceipts, receipt_update \in receipt_update_samples :
           UpdateReceipt(TokenOf(1), receipt_id, receipt_update)
    \/ \E receipt_id \in 1..MaxReceipts : ReprocessReceipt(TokenOf(1), receipt_id)
    \/ \E force \in BOOLEAN : ReprocessAllIncomplete(TokenOf(1), force)
    \/ \E n \in 1..MaxTasks : LoadReceipt(n)
    \/ \E n \in 1..MaxTasks : FinishTask(n)

SpecReprocess == InitReprocess /\ [][NextReprocess]_vars

\* The event loop runs every task that is ready: no task of a row waits forever
FairReprocess ==
    /\ SpecReprocess
    /\ \A receipt_id \in 1..MaxReceipts : WF_vars(RunTask(receipt_id))


\* -------------------------------------------------------------------------
\* The claims of the specification
\* -------------------------------------------------------------------------

\* The lines of the receipt that are of one of the kinds
LinesOf(kinds) == { j \in 1..Len(receipt) : receipt[j].kind \in kinds }

\* The amounts printed on those lines
AmountsOf(kinds) == { AmountValue(receipt[j].amt) : j \in LinesOf(kinds) }

\* The lines with a total keyword, Turkish or English
KeywordTotalKinds == {"toplam", "genel", "ara", "total"}

\* The lines whose amounts the code collects in toplam_amounts
ToplamKinds == {"toplam", "genel", "ara"}

\* _extract_total_amount has returned
TotalReturned == pc = "return"

\* C1: the total is never an amount read from a change/refund line, in any tier of the
\* cascade.  Stated for the amounts that are printed on a change line and on no other line.
C1_NeverChangeAmount ==
    TotalReturned =>
        total_amount \notin (AmountsOf({"change"}) \ AmountsOf(AmountKinds \ {"change"}))

\* C2: a receipt with a change line 'PARA USTU: X TL', a total line 'TOPLAM: Y TL' and
\* optionally a cash line 'NAKIT: N TL', in any order, yields Y, never X and never N.
C2_TotalBesideChange ==
    ( /\ TotalReturned
      /\ LinesOf({"change"}) # {}
      /\ LinesOf({"toplam"}) # {}
      /\ LinesOf({"change", "toplam", "nakit"}) = 1..Len(receipt) )
    => /\ AmountsOf({"toplam"}) = {total_amount}
       /\ total_amount \notin AmountsOf({"change", "nakit"})

C2_Witness ==
    /\ TotalReturned
    /\ receipt = << [kind |-> "nakit", amt |-> Amount(100, 0)],
                    [kind |-> "change", amt |-> Amount(2, 85)],
                    [kind |-> "toplam", amt |-> Amount(97, 15)] >>
    /\ total_amount = 97150

\* C3: the single line 'TOPLAM: D,DD TL' or 'GENEL TOPLAM: D,DD TL', D a digit sequence
\* (with or without a leading zero), yields the number D.DD and the currency TL.
C3_SingleTotalLine ==
    ( /\ pc = "done"
      /\ Len(receipt) = 1
      /\ receipt[1].kind \in {"toplam", "genel", "zeros"} )
    => /\ total_amount = AmountValue(receipt[1].amt)
       /\ currency = "TL"

C3_Witness ==
    /\ pc = "done"
    /\ receipt = << [kind |-> "genel", amt |-> Amount(118, 89)] >>
    /\ total_amount = 118890
    /\ currency = "TL"

\* C4: the cascade is strictly prioritised: without a keyword-total candidate but with a
\* payment-method amount, the total is a payment-method amount, whatever amount followed
\* by TL another line ends in.
C4_PaymentBeforeTrailing ==
    ( /\ TotalReturned
      /\ LinesOf(KeywordTotalKinds) = {}
      /\ LinesOf({"nakit"}) # {} )
    => total_amount \in AmountsOf({"nakit"})

\* C5: an amount after an English total keyword is a keyword-total candidate: when one is
\* present the total is a keyword-total candidate, never a payment-method amount.
C5_EnglishKeywordTotal ==
    ( /\ TotalReturned
      /\ LinesOf({"total"}) # {} )
    => total_amount \in AmountsOf(KeywordTotalKinds)

ItemContext(kind) == IF kind \in {"unu_a", "unu_b"} THEN "unu" ELSE kind

\* The distinct (price, line context) pairs of the receipt with 0 < price < 1000
DistinctItems ==
    { it \in { <<AmountValue(receipt[j].amt), ItemContext(receipt[j].kind)>> :
                 j \in 1..Len(receipt) } :
        0 < it[1] /\ it[1] < 1000 * Scale }

RECURSIVE SumOfPrices(_)
SumOfPrices(priced) ==
    IF priced = {} THEN 0
    ELSE LET it == CHOOSE x \in priced : TRUE IN it[1] + SumOfPrices(priced \ {it})

\* C7: on a receipt of item lines only (no keyword-total, payment-method, trailing-currency
\* or nearby-line candidate), the total is the sum of the asterisk prices p, 0 < p < 1000,
\* each distinct (price, first 20 characters of the line) pair counted once.
C7_ItemSum == TotalReturned => total_amount = SumOfPrices(DistinctItems)

C7_Witness ==
    /\ TotalReturned
    /\ receipt = << [kind |-> "ekmek", amt |-> Amount(17, 0)],
                    [kind |-> "sut", amt |-> Amount(12, 90)] >>
    /\ total_amount = 29900

\* The number of days of a month of the calendar
MonthLength(year, month) ==
    IF month \in {4, 6, 9, 11} THEN 30
    ELSE IF month # 2 THEN 31
    ELSE IF year % 4 = 0 /\ (year % 100 # 0 \/ year % 400 = 0) THEN 29
    ELSE 28

\* The day after d
DayAfter(d) ==
    IF d.day < MonthLength(d.year, d.month) THEN [d EXCEPT !.day = @ + 1]
    ELSE IF d.month < 12 THEN [year |-> d.year, month |-> d.month + 1, day |-> 1]
    ELSE [year |-> d.year + 1, month |-> 1, day |-> 1]

\* a is not after b
NotAfter(a, b) ==
    \/ a.year < b.year
    \/ a.year = b.year /\ a.month < b.month
    \/ a.year = b.year /\ a.month = b.month /\ a.day <= b.day

\* The range of the purchase dates: 2000-01-01 to the day after the processing
InDateRange(d) ==
    /\ NotAfter([year |-> 2000, month |-> 1, day |-> 1], d)
    /\ NotAfter(d, DayAfter(today))

\* The day exists in the calendar
IsCalendarDay(d) == d.month \in 1..12 /\ d.day \in 1..MonthLength(d.year, d.month)

\* 'YYYY-MM-DD'
Iso(d) ==
    NatToDigits(d.year, 4) \o <<"-">> \o NatToDigits(d.month, 2) \o <<"-">>
        \o NatToDigits(d.day, 2)

\* The date a 'YYYY-MM-DD' string names
DateOf(str) ==
    [year  |-> DigitsToNat(SubSeq(str, 1, 4)),
     month |-> DigitsToNat(SubSeq(str, 6, 7)),
     day   |-> DigitsToNat(SubSeq(str, 9, 10))]

\* _extract_purchase_date has returned
DateReturned == pc = "total"

\* C8: numeric dates are read day first: a line 'TARIH: DD.MM.YYYY', or a bare
\* 'DD.MM.YYYY', with any of the keywords and separators, gives YYYY-MM-DD when the day
\* exists and lies in the range of the purchase dates, and None when the day or the month
\* is out of range.
C8_DayFirst ==
    ( /\ DateReturned
      /\ receipt # <<>>
      /\ ~receipt[1].short )
    => /\ IsCalendarDay(receipt[1]) /\ InDateRange(receipt[1]) => date_str = Iso(receipt[1])
       /\ ~IsCalendarDay(receipt[1]) => date_str = None

C8_Witness ==
    /\ DateReturned
    /\ receipt = << [kind |-> "date", keyword |-> <<"T","A","R","Idot","H",":"," ">>, sep |-> ".", day |-> 5,
                     month |-> 9, year |-> 2025, short |-> FALSE] >>
    /\ date_str = <<"2","0","2","5","-","0","9","-","0","5">>

\* C9: every purchase date that is returned lies within [2000-01-01, today + 1 day].
C9_DateInRange == date_str # None => InDateRange(DateOf(date_str))

\* _extract_vendor_name has returned
VendorReturned == pc \in {"date", "vendor_returned"}

\* The candidate lines among the first 10
Candidates == { j \in 1..Len(receipt) : j <= 10 /\ receipt[j].qualifies }

\* C10 as stated: 'Unknown Vendor' is returned if and only if there are no lines.
C10_UnknownOnlyWithoutLines == VendorReturned => (vendor_name = UnknownVendor <=> receipt = <<>>)

\* C10: the vendor is the first candidate line among the first 10 lines; without one it is
\* the first line verbatim; 'Unknown Vendor' is returned when there are no lines, and
\* otherwise only when no line qualifies and the first line reads 'Unknown Vendor'.
C10_VendorName ==
    VendorReturned =>
        /\ vendor_name = IF Candidates # {} THEN receipt[Min(Candidates)].txt
                         ELSE IF receipt # <<>> THEN receipt[1].txt
                         ELSE UnknownVendor
        /\ vendor_name = UnknownVendor <=>
               \/ receipt = <<>>
               \/ Candidates = {} /\ receipt[1].txt = UnknownVendor

C10_Witness ==
    /\ VendorReturned
    /\ Len(receipt) = 11
    /\ receipt[10].txt = <<"M","i","g","r","o","s"," ","M","a","r","k","e","t">>
    /\ receipt[11].txt = <<"B","I","M">>
    /\ vendor_name = <<"M","i","g","r","o","s"," ","M","a","r","k","e","t">>


\* _extract_line_items has returned
LineItemsReturned == pc = "return"

\* The price that the row of a line item showed: the unit price of a row without a
\* quantity prefix, the line total of a row with one
RowPrice(item) == item.unit_price.num

\* C11: every line item returned by _extract_line_items, whichever row grammar produced it,
\* has a price strictly greater than 0 and strictly below the ceiling of 10000.
C11_ItemPriceInRange ==
    LineItemsReturned =>
        \A j \in 1..Len(line_items) : InPriceRange(RowPrice(line_items[j]))

\* C12: every line item returned by _extract_line_items has a quantity of at least 1 and
\* total_price = quantity * unit_price (unit_price being the quotient num / den).
C12_QuantityTimesUnitPrice ==
    LineItemsReturned =>
        \A j \in 1..Len(line_items) :
            /\ line_items[j].quantity >= 1
            /\ line_items[j].total_price * line_items[j].unit_price.den
                   = line_items[j].quantity * line_items[j].unit_price.num

\* The text is empty or has whitespace only
BlankInput == \A i \in 1..Len(text) : text[i] \in Whitespace

\* C14: for the empty string and for whitespace-only text, extract_structured_data returns
\* without raising and without parsing: the placeholder vendor, a zero total, no date, no
\* line items, no items, and a confidence of at most 0.2.
C14_BlankTextResult ==
    BlankInput =>
        /\ pc \in {"start", "done"}
        /\ pc = "done" =>
               /\ vendor_name = CouldNotRead
               /\ total_amount = 0
               /\ date_str = None
               /\ line_items = <<>>
               /\ items = <<>>
               /\ confidence <= 20

C14_Witness ==
    /\ pc = "done"
    /\ text = <<" "," ","\n">>
    /\ vendor_name = CouldNotRead
    /\ confidence = 10

\* C15: _parse_receipt_comprehensive returns a result for every text and never raises.
C15_NeverRaises == pc # "raised"

\* The lines that carry a Turkish keyword or the TL suffix: all but 'TOTAL: a'
TurkishKinds == AmountKinds \ {"total"}

\* C18: the currency of the result is TL when a Turkish-tagged pattern (TOPLAM, NAKIT,
\* TL suffix) matched, and it is not TL when only the English TOTAL pattern without a
\* currency marker matched or when no total was found.
C18_CurrencyOfPattern ==
    (pc = "done" /\ ~BlankInput) =>
        (currency = "TL" <=> (total_amount > 0 /\ LinesOf(TurkishKinds) # {}))

\* The smallest score of a result with one field populated
BaseWeights ==
    [vendor |-> Min({ CalculateConfidence(v, None, None, Today1) :
                        v \in { x \in ConfidenceVendors : x # None /\ x[1] # <<>> } }),
     amount |-> Min({ CalculateConfidence(None, a, None, Today1) :
                        a \in { x \in ConfidenceAmounts : x # None /\ x[1] # 0 } }),
     date |-> Min({ CalculateConfidence(None, None, d, Today1) :
                      d \in ConfidenceDates \ {None} })]

\* C13: the confidence is within [0, 1] (0..100 hundredths); a result with one more field
\* populated never has a lower score than the same result with that field absent; the
\* amount has the largest base weight.  For calculate_confidence, and for the confidence
\* the service reports (absent there: a total of 0, the vendor 'Unknown Vendor').
C13_ConfidenceMonotone ==
    /\ scored.pc = "returned" =>
           /\ scored.confidence \in 0..100
           /\ scored.vendor = None =>
                  \A v \in ConfidenceVendors :
                      CalculateConfidence(v, scored.amount, scored.date, scored.on)
                          >= scored.confidence
           /\ scored.amount = None =>
                  \A a \in ConfidenceAmounts :
                      CalculateConfidence(scored.vendor, a, scored.date, scored.on)
                          >= scored.confidence
           /\ scored.date = None =>
                  \A d \in ConfidenceDates :
                      CalculateConfidence(scored.vendor, scored.amount, d, scored.on)
                          >= scored.confidence
           /\ BaseWeights.amount > BaseWeights.vendor
           /\ BaseWeights.amount > BaseWeights.date
    /\ pc = "done" =>
           /\ confidence \in 0..100
           /\ vendor_name # CouldNotRead =>
                  /\ confidence >= ServiceConfidence(0, vendor_name)
                  /\ confidence >= ServiceConfidence(total_amount, UnknownVendor)

C13_Witness ==
    /\ scored.pc = "returned"
    /\ scored.vendor = None
    /\ scored.amount = Some(12500)
    /\ scored.date = Some([year |-> 2024, month |-> 2, day |-> 29])
    /\ scored.confidence = 70

\* The invocations of extract_receipt_data_enhanced that have returned
Returned == { i \in 1..Len(calls) : calls[i].pc = "returned" }

\* What the four extractors find in the text of invocation i
Extracted(i) == ExtractedData(calls[i].ocr_text, calls[i].now)

\* C16: an invocation of extract_receipt_data_enhanced whose text gives a vendor but no total
\* returns the extracted vendor, date and items and no total: nothing is substituted
C16_AbsentTotalStaysAbsent ==
    \A i \in Returned :
        (Extracted(i).vendor # None /\ Extracted(i).total = None)
            => /\ calls[i].data.vendor = Extracted(i).vendor
               /\ calls[i].data.total = None
               /\ calls[i].data.purchase_date = Extracted(i).purchase_date
               /\ calls[i].data.items = Extracted(i).items

\* C17: two invocations of extract_receipt_data_enhanced on the same text return the same
\* vendor, total, date and items, in whatever order they ran
C17_SameTextSameResult ==
    \A i \in Returned, j \in Returned :
        calls[i].ocr_text = calls[j].ocr_text => calls[i].data = calls[j].data

\* The token names a row of the users table
IsStored(token, session) == token.kind = "valid" /\ token.sub \in DOMAIN session

\* The token names an active user
IsActiveUser(token, session) == IsStored(token, session) /\ session[token.sub].is_active

\* The token names an active user whose role is ADMIN
IsActiveAdmin(token, session) ==
    IsActiveUser(token, session) /\ session[token.sub].role = "admin"

\* The operations of the user administration that C19 names
AdminOnlyOps == {"register_user", "list_users"}

\* The answer is a success
Succeeded(answer) == answer.status \in {HTTP_200_OK, HTTP_201_CREATED}

\* C19 as stated: POST /auth/register and GET /auth/users succeed only for an active ADMIN; a
\* request without a token is answered 401 and a request by a PASTOR, AUDITOR or TREASURER
\* 403, and neither creates nor changes a user
C19_AdminOnly ==
    [][ LET Request(t, answer) ==
                /\ Succeeded(answer) => IsActiveAdmin(t, users)
                /\ (t = NoToken) => (answer.status = HTTP_401_UNAUTHORIZED /\ users' = users)
                /\ (IsStored(t, users) /\ users[t.sub].role # "admin")
                       => (answer.status = HTTP_403_FORBIDDEN /\ users' = users)
        IN  (exchange'.op \in AdminOnlyOps) => Request(exchange'.token, exchange') ]_vars

\* C19, amended: POST /auth/register and GET /auth/users succeed only for an active ADMIN; a
\* request without a token, with an invalid token or with the token of a user that is not
\* stored is answered 401, a request by an inactive user 400, a request by an active
\* PASTOR, AUDITOR or TREASURER 403, and no request that is not a success creates or
\* changes a user
C19_AdminOnlyActive ==
    [][ LET Request(t, answer) ==
                /\ Succeeded(answer) => IsActiveAdmin(t, users)
                /\ (~IsStored(t, users)) => (answer.status = HTTP_401_UNAUTHORIZED)
                /\ (IsStored(t, users) /\ ~users[t.sub].is_active)
                       => (answer.status = HTTP_400_BAD_REQUEST)
                /\ (IsActiveUser(t, users) /\ users[t.sub].role # "admin")
                       => (answer.status = HTTP_403_FORBIDDEN)
                /\ (~Succeeded(answer)) => (users' = users)
        IN  (exchange'.op \in AdminOnlyOps) => Request(exchange'.token, exchange') ]_vars

\* An active treasurer asked to register a user, was answered 403, and the table still
\* holds the two users it held
C19_Witness ==
    /\ exchange.op = "register_user"
    /\ exchange.status = HTTP_403_FORBIDDEN
    /\ IsActiveUser(exchange.token, users)
    /\ users[exchange.token.sub].role = "treasurer"
    /\ Len(users) = 2

\* C20: PUT /auth/users/{id} by an active ADMIN for a stored user, with a role and an
\* is_active value, is answered 200 and the stored user then has that role and that
\* is_active value
C20_AdminUpdatesUser ==
    [][ LET Update(t, user_id, user_update, answer) ==
                (/\ IsActiveAdmin(t, users)
                 /\ user_id \in DOMAIN users
                 /\ user_update.username = None
                 /\ user_update.email = None
                 /\ user_update.role # None
                 /\ user_update.is_active # None)
                    => /\ answer.status = HTTP_200_OK
                       /\ users'[user_id].role = user_update.role[1]
                       /\ users'[user_id].is_active = user_update.is_active[1]
        IN  (exchange'.op = "update_user")
                => Update(exchange'.token, exchange'.args[1], exchange'.args[2], exchange') ]_vars

\* C23: on a receipt with a subtotal line 'ARA TOPLAM: S TL' and a grand-total line
\* 'GENEL TOPLAM: G TL', 0 < S < G, and no other line, the total is G, the value that
\* ReceiptParser.extract_amount returns (the largest match of its TOPLAM pattern).
C23_GrandTotalOverSubtotal ==
    ( /\ TotalReturned
      /\ Len(receipt) = 2
      /\ LinesOf({"ara"}) # {}
      /\ LinesOf({"genel"}) # {}
      /\ Max(AmountsOf({"ara"})) < Max(AmountsOf({"genel"})) )
    => total_amount = Max(AmountsOf({"ara", "genel"}))

\* for offset in range(4): the keyword line and the next 3 lines
NearbyWindow == 3

\* The receipt starts with a line that carries a total keyword and no amount
IsSplitTotal == receipt # <<>> /\ receipt[1].role = "keyword"

\* No pattern of all_patterns gave a candidate, and no line ends in an amount with TL
NoEarlierCandidate ==
    /\ ToplamAmounts(SearchText(upper_text)) = {}
    /\ OtherAmounts(SearchText(upper_text)) = {}
    /\ TrailingCurrencyAmounts(upper_text) = {}

\* The lines within 3 lines after the keyword line that are only an amount a,
\* 0 < a < 10000
NearbyCandidates ==
    { j \in 2..Min({Len(receipt), 1 + NearbyWindow}) :
        /\ receipt[j].role \in {"standalone", "star"}
        /\ 0 < receipt[j].value
        /\ receipt[j].value < 10000 * Scale }

\* C24: a keyword line (TOPLAM / GENEL / TOPKDV) without an amount, no candidate of an
\* earlier tier: the total is the first standalone amount a, 0 < a < 10000, on the next 3
\* lines; a standalone amount more than 3 lines after the keyword is not taken (without an
\* asterisk price to sum, no total is found).
C24_NearbyLineTotal ==
    ( /\ TotalReturned
      /\ IsSplitTotal
      /\ NoEarlierCandidate )
    => /\ (NearbyCandidates # {}) => (total_amount = receipt[Min(NearbyCandidates)].value)
       /\ ( /\ NearbyCandidates = {}
            /\ \A j \in 1..Len(receipt) : receipt[j].role # "star" )
          => (total_amount = 0)

\* The amount 12,50 two lines below the TOPLAM line was returned, and the amount 7,00 four
\* lines below a GENEL line can be left alone
C24_Witness ==
    /\ TotalReturned
    /\ receipt = << Printed("keyword", <<"T","O","P","L","A","M">>, 0), GapLine, GapLine,
                    Printed("standalone", <<"1","2",",","5","0">>, 12500), SecondAmountLine >>
    /\ NoEarlierCandidate
    /\ total_amount = 12500

\* C28: a total printed with a dot between the thousands and a comma before the decimals,
\* 'TOPLAM: 1.234,56 TL', is extracted with its full value, 1234.56.
C28_ThousandsSeparator ==
    ( /\ TotalReturned
      /\ Len(receipt) = 1
      /\ receipt[1].role = "thousands" )
    => total_amount = receipt[1].value

\* The date lines of the receipt that print a day of the calendar within the range of the
\* purchase dates
ValidDateLines == { j \in 1..Len(receipt) : IsCalendarDay(receipt[j]) /\ InDateRange(receipt[j]) }

\* The rank of the keyword of a date line: TARIH before DATE before no keyword
KeywordRank(l) ==
    IF l.keyword \in { <<"T","A","R","Idot","H",":"," ">>, <<"T","a","r","i","h"," ">> } THEN 1
    ELSE IF l.keyword = <<"D","A","T","E",":"," ">> THEN 2
    ELSE 3

\* C25: _extract_purchase_date returns None only when no line prints a valid date: an
\* invalid date on an earlier line ('TARIH: 32.13.2025') does not keep a valid date on
\* another line from being returned; and a date that is returned comes from a line whose
\* keyword ranks first among the lines with a valid date (TARIH, then DATE, then none).
C25_ValidDateReturned ==
    ( /\ DateReturned
      /\ ValidDateLines # {} )
    => /\ date_str # None
       /\ \E j \in ValidDateLines :
              /\ date_str = Iso(receipt[j])
              /\ \A k \in ValidDateLines : KeywordRank(receipt[j]) <= KeywordRank(receipt[k])

\* Words of total, tax, payment, change and footer lines
SkippedWords ==
    { <<"T","O","P","L","A","M">>, <<"T","O","T","A","L">>, <<"K","D","V">>, <<"N","A","K","Idot","T">>, <<"K","A","R","T">>, <<"P","A","R","A">>, <<"Idot","A","D","E">>, <<"T","E","Scedil","E","K","K","Uuml","R">> }

\* The line carries one of these words
IsKeywordLine(line) == \E w \in SkippedWords : Contains(Upper(line), w)

\* C27: each line yields at most one line item and the items stand in the order of their
\* lines (the line numbers increase strictly); every item comes from a line of the text,
\* and never from a line with a total, tax, payment, change or footer keyword.
C27_OneItemPerLine ==
    LineItemsReturned =>
        /\ \A a \in 1..Len(line_items) : \A b \in 1..Len(line_items) :
               a < b => line_items[a].line_number < line_items[b].line_number
        /\ \A j \in 1..Len(line_items) :
               /\ line_items[j].line_number \in 1..Len(lines)
               /\ ~IsKeywordLine(lines[line_items[j].line_number])

\* The asterisk row gave the one item, the tax line after it none
C27_Witness ==
    /\ LineItemsReturned
    /\ lines = << <<"E","K","M","E","K"," ","%","1"," ","*","5",",","0","0">>, <<"K","D","V"," ","1",",","0","0">> >>
    /\ Len(line_items) = 1
    /\ line_items[1].line_number = 1
    /\ line_items[1].name = <<"E","K","M","E","K">>

\* extract_date has returned from a call on a line 'TARIH: DD.MM.YYYY' that prints a day of
\* the calendar between 2000-01-01 and the day of the call
ReadDottedDate ==
    /\ parsed.pc = "returned"
    /\ parsed.line.keyword = <<"T","A","R","Idot","H",":"," ">>
    /\ parsed.line.sep = "."
    /\ ~parsed.line.short
    /\ IsCalendarDay(parsed.line)
    /\ NotAfter([year |-> 2000, month |-> 1, day |-> 1], parsed.line)
    /\ NotAfter(parsed.line, parsed.on)

\* C26: ReceiptParser.extract_date reads 'TARIH: DD.MM.YYYY' day first: for a valid date
\* with DD <= 12 and MM <= 12 it returns the date with day DD and month MM.
C26_ParserDayFirst ==
    ( /\ ReadDottedDate
      /\ parsed.line.day <= 12
      /\ parsed.line.month <= 12 )
    => parsed.date = [year |-> parsed.line.year, month |-> parsed.line.month,
                      day |-> parsed.line.day]

\* No two rows of the table share a username or an email
UniqueUsers(session) ==
    \A a \in DOMAIN session : \A b \in DOMAIN session :
        a # b => /\ session[a].username # session[b].username
                 /\ session[a].email # session[b].email

\* The update would give the row user_id a username or an email of another row
TakesFromOther(session, user_id, user_update) ==
    \E id \in DOMAIN session :
        /\ id # user_id
        /\ \/ user_update.username = Some(session[id].username)
           \/ user_update.email = Some(session[id].email)

\* The request of an allowed caller would create a duplicate username or email
WouldDuplicate(session, request) ==
    \/ /\ request.op = "register_user"
       /\ IsActiveAdmin(request.token, session)
       /\ \E id \in DOMAIN session :
              \/ session[id].username = request.args.username
              \/ session[id].email = request.args.email
    \/ /\ request.op = "update_user"
       /\ IsActiveAdmin(request.token, session)
       /\ request.args[1] \in DOMAIN session
       /\ TakesFromOther(session, request.args[1], request.args[2])
    \/ /\ request.op = "update_current_user_profile"
       /\ IsActiveUser(request.token, session)
       /\ TakesFromOther(session, request.token.sub, request.args)

\* C21: whatever requests to register_user, update_current_user_profile and update_user were
\* answered, no two stored users share a username or an email; a request that would create
\* a duplicate is answered 400 and leaves every user as it was.
C21_UniqueUsernamesAndEmails ==
    [][ /\ UniqueUsers(users')
        /\ WouldDuplicate(users, exchange')
               => /\ exchange'.status = HTTP_400_BAD_REQUEST
                  /\ users' = users ]_vars

\* A third user was registered, and then a user's request for the username of another user
\* was answered 400
C21_Witness ==
    /\ Len(users) = 3
    /\ UniqueUsers(users)
    /\ exchange.op = "update_current_user_profile"
    /\ exchange.args.username = Some("user")
    /\ exchange.token # TokenOf(2)
    /\ exchange.status = HTTP_400_BAD_REQUEST

\* The endpoints of api/v1/receipts.py that ask for a user
ProtectedReceiptOps ==
    {"upload_receipt", "get_receipts", "update_receipt", "reprocess_receipt",
     "reprocess_all_incomplete"}

\* The users whose account is inactive
InactiveUsers == { id \in DOMAIN users : ~users[id].is_active }

\* The request was made with the correct credentials of id
CredentialsOf(id) ==
    /\ exchange.args[1] \in {users[id].username, users[id].email}
    /\ exchange.args[2]

\* C22: an inactive account has no access: its login with correct credentials is answered 400
\* without a token, and a token of it is rejected by every protected endpoint, the receipt
\* upload, list and update included
C22_InactiveHasNoAccess ==
    /\ exchange.op = "login"
           => \A id \in InactiveUsers :
                  CredentialsOf(id) => /\ exchange.status = HTTP_400_BAD_REQUEST
                                       /\ exchange.body = None
    /\ (exchange.op \in ProtectedReceiptOps /\ exchange.token.sub \in InactiveUsers)
           => exchange.status \notin {HTTP_200_OK, HTTP_201_CREATED}

C30_CompletedOnlyWithData ==
    \A receipt_id \in DOMAIN receipts :
        IsBlankText(stored_files[receipts[receipt_id].file])
            => receipts[receipt_id].status # "completed"


====
